---- MODULE Spec2Model ----
(***************************************************************************)
(* Learning-First AI Coding Tutor, backend.                                *)
(*                                                                         *)
(* A model of the request validator (utils/validators.js), the POST        *)
(* /analyze route (routes/analyze.js), the analysis service                *)
(* (services/aiService.js: analyzeCode, getAIAnalysis, getFallbackAnalysis,*)
(* sanitizeResponse) and the heuristic error detector                      *)
(* (utils/errorDetector.js).                                               *)
(*                                                                         *)
(* JavaScript strings are TLA+ strings, read one character at a time with  *)
(* SubSeq; every JavaScript value is a record [t, s, n, a] (its type tag,  *)
(* its text when a string, its number times ten when a number, its         *)
(* elements when an array); a JavaScript object is a function from the     *)
(* keys it holds to values.                                                *)
(***************************************************************************)
EXTENDS Integers, Sequences, FiniteSets, TLC

VARIABLES
  vBody,      \* validator: the object validateAnalyzeRequest was called with
  vBodyAfter, \* validator: that object as it is after the call
  vResult,    \* validator: what the call produced
  sParams,    \* sanitizer: how the reply text of the call was put together
  sArg,       \* sanitizer: the parsed LLM output sanitizeResponse is called with
  sOnce,      \* sanitizer: the result of sanitizeResponse(sArg)
  sTwice,     \* sanitizer: the result of sanitizeResponse on that result
  req,            \* route: req.body of the POST /analyze request
  groqClient,     \* route: TRUE when GROQ_API_KEY gave the service a client
  phase,          \* route: "received", "awaitingLLM" or "done"
  detected,       \* route: detectedErrors, what detectErrors returned
  llmCall,        \* route: "none", "pending", "resolved", "rejected"
  llmTimedOut,    \* route: the 5 second timeout won the race against the call
  timer5,         \* route: the timeout of getAIAnalysis is armed
  timer10,        \* route: the timeout of the route is armed
  responses,      \* route: what res has sent, each [status, body]
  nDetect,        \* route: calls of detectErrors for the request
  nLLM,           \* route: calls of groqClient.chat.completions.create
  nFallback,      \* route: calls of getFallbackAnalysis for the request
  pCall,          \* function call: the function called and its arguments
  pResult,        \* function call: what the call returned
  localStorage,   \* client: the item learning_tutor_state, or NoItem
  lsInputs,       \* client: which error types and replies this run supplies
  lsCall,         \* client: the last call made on the learning state
  nReplies,       \* client: replies the tutor has given so far
  nErrors,        \* client: errors reported since the last reset
  apiKey,         \* server: GROQ_API_KEY was set when the module was loaded
  typoLastIndex,  \* server: lastIndex of the typo patterns of the latest call
  conn,           \* server: the requests, each with its phase and its answer
  serverUp        \* server: the process is running

vvars == <<vBody, vBodyAfter, vResult>>
svars == <<sParams, sArg, sOnce, sTwice>>
rvars == <<req, groqClient, phase, detected, llmCall, llmTimedOut, timer5,
           timer10, responses, nDetect, nLLM, nFallback>>
pvars == <<pCall, pResult>>
lvars == <<localStorage, lsInputs, lsCall, nReplies, nErrors>>
mvars == <<apiKey, typoLastIndex, conn, serverUp>>
vars == <<vvars, svars, rvars, pvars, lvars, mvars>>

\* the variables outside one part of the program
notV == <<svars, rvars, pvars, lvars, mvars>>
notS == <<vvars, rvars, pvars, lvars, mvars>>
notR == <<vvars, svars, pvars, lvars, mvars>>
notP == <<vvars, svars, rvars, lvars, mvars>>
notL == <<vvars, svars, rvars, pvars, mvars>>
notM == <<vvars, svars, rvars, pvars, lvars>>

\* the variables of a part of the program that a specification leaves out
VIdle == vBody = "idle" /\ vBodyAfter = "idle" /\ vResult = "idle"
SIdle == sParams = "idle" /\ sArg = "idle" /\ sOnce = "idle" /\ sTwice = "idle"
RIdle ==
  /\ req = "idle" /\ groqClient = "idle" /\ phase = "idle"
  /\ detected = "idle" /\ llmCall = "idle" /\ llmTimedOut = "idle"
  /\ timer5 = "idle" /\ timer10 = "idle" /\ responses = "idle"
  /\ nDetect = "idle" /\ nLLM = "idle" /\ nFallback = "idle"
PIdle == pCall = "idle" /\ pResult = "idle"
LIdle ==
  /\ localStorage = "idle" /\ lsInputs = "idle" /\ lsCall = "idle"
  /\ nReplies = "idle" /\ nErrors = "idle"
MIdle ==
  apiKey = "idle" /\ typoLastIndex = "idle" /\ conn = "idle" /\ serverUp = "idle"
OnlyV == SIdle /\ RIdle /\ PIdle /\ LIdle /\ MIdle
OnlyS == VIdle /\ RIdle /\ PIdle /\ LIdle /\ MIdle
OnlyR == VIdle /\ SIdle /\ PIdle /\ LIdle /\ MIdle
OnlyP == VIdle /\ SIdle /\ RIdle /\ LIdle /\ MIdle
OnlyL == VIdle /\ SIdle /\ RIdle /\ PIdle /\ MIdle
OnlyM == VIdle /\ SIdle /\ RIdle /\ PIdle /\ LIdle

-----------------------------------------------------------------------------
(* JavaScript values                                                       *)

Undef == [t |-> "undefined", s |-> "", n |-> 0, a |-> <<>>]
Null == [t |-> "null", s |-> "", n |-> 0, a |-> <<>>]
Str(x) == [t |-> "string", s |-> x, n |-> 0, a |-> <<>>]
\* a number with one decimal digit, given in tenths: Num(25) is 2.5
Num(tenths) == [t |-> "number", s |-> "", n |-> tenths, a |-> <<>>]
Bool(b) == [t |-> "boolean", s |-> "", n |-> IF b THEN 1 ELSE 0, a |-> <<>>]
Obj == [t |-> "object", s |-> "", n |-> 0, a |-> <<>>]
Arr(items) == [t |-> "array", s |-> "", n |-> 0, a |-> items]

\* obj.key: undefined when the object does not hold the key
Get(obj, key) == IF key \in DOMAIN obj THEN obj[key] ELSE Undef

\* ToBoolean
Truthy(v) ==
  CASE v.t = "undefined" -> FALSE
    [] v.t = "null" -> FALSE
    [] v.t = "boolean" -> v.n = 1
    [] v.t = "number" -> v.n # 0
    [] v.t = "string" -> v.s # ""
    [] OTHER -> TRUE

\* the i-th character of a string
At(str, i) == SubSeq(str, i, i)

IsSpace(c) == c \in {" ", "\t", "\n", "\r"}
IsDigit(c) == c \in {"0", "1", "2", "3", "4", "5", "6", "7", "8", "9"}

UpperLetters == "ABCDEFGHIJKLMNOPQRSTUVWXYZ"
LowerLetters == "abcdefghijklmnopqrstuvwxyz"

UpperLetterSet == {At(UpperLetters, i) : i \in 1..26}

LowerChar(c) ==
  IF c \in UpperLetterSet
    THEN At(LowerLetters, CHOOSE i \in 1..26 : At(UpperLetters, i) = c)
    ELSE c

RECURSIVE toLowerCase(_)
toLowerCase(str) ==
  IF Len(str) <= 1 THEN LowerChar(str)
  ELSE toLowerCase(SubSeq(str, 1, Len(str) \div 2))
       \o toLowerCase(SubSeq(str, Len(str) \div 2 + 1, Len(str)))

RECURSIVE trimStart(_)
trimStart(str) ==
  IF str # "" /\ IsSpace(At(str, 1)) THEN trimStart(SubSeq(str, 2, Len(str)))
  ELSE str

RECURSIVE trimEnd(_)
trimEnd(str) ==
  IF str # "" /\ IsSpace(At(str, Len(str)))
    THEN trimEnd(SubSeq(str, 1, Len(str) - 1))
    ELSE str

trim(str) == trimEnd(trimStart(str))

DigitChar(d) == At("0123456789", d + 1)
DigitValue(c) == CHOOSE d \in 0..9 : DigitChar(d) = c

RECURSIVE NatToString(_)
NatToString(k) ==
  IF k < 10 THEN DigitChar(k)
  ELSE NatToString(k \div 10) \o DigitChar(k % 10)

\* Number::toString for a number given in tenths
NumberToString(tenths) ==
  LET abs == IF tenths < 0 THEN 0 - tenths ELSE tenths
      sign == IF tenths < 0 THEN "-" ELSE ""
  IN  IF abs % 10 = 0 THEN sign \o NatToString(abs \div 10)
      ELSE sign \o NatToString(abs \div 10) \o "." \o DigitChar(abs % 10)

RECURSIVE Join(_, _)
Join(items, sep) ==
  IF items = <<>> THEN ""
  ELSE IF Len(items) = 1 THEN items[1]
  ELSE items[1] \o sep \o Join(Tail(items), sep)

\* ToString(v) of the language
JSToString(v) ==
  CASE v.t = "string" -> v.s
    [] v.t = "number" -> NumberToString(v.n)
    [] v.t = "boolean" -> IF v.n = 1 THEN "true" ELSE "false"
    [] v.t = "null" -> "null"
    [] v.t = "undefined" -> "undefined"
    [] v.t = "array" -> Join(v.a, ",")
    [] OTHER -> "[object Object]"

RECURSIVE DigitsValue(_, _)
\* the value of the longest prefix of digits of str, acc being the value so far
DigitsValue(str, acc) ==
  IF str # "" /\ IsDigit(At(str, 1))
    THEN DigitsValue(SubSeq(str, 2, Len(str)), acc * 10 + DigitValue(At(str, 1)))
    ELSE acc

\* parseInt(v): [nan |-> TRUE] when the text of v does not start, after white
\* space and a sign, with a digit
parseInt(v) ==
  LET str == trimStart(JSToString(v))
      neg == str # "" /\ At(str, 1) = "-"
      signed == str # "" /\ At(str, 1) \in {"-", "+"}
      rest == IF signed THEN SubSeq(str, 2, Len(str)) ELSE str
  IN  IF rest = "" \/ ~IsDigit(At(rest, 1)) THEN [nan |-> TRUE, v |-> 0]
      ELSE [nan |-> FALSE,
            v |-> IF neg THEN 0 - DigitsValue(rest, 0) ELSE DigitsValue(rest, 0)]

-----------------------------------------------------------------------------
(* utils/validators.js                                                     *)

SUPPORTED_LANGUAGES == <<"python", "c", "cpp", "java">>
SUPPORTED_LEVELS == <<"basic", "moderate", "complex">>
MAX_HINT_LEVEL == 5

Includes(list, x) == \E i \in 1..Len(list) : list[i] = x

\* the messages pushed for body.code
CodeErrors(body) ==
  LET code == Get(body, "code")
  IN  IF ~Truthy(code) THEN <<"code is required">>
      ELSE IF code.t # "string" THEN <<"code must be a string">>
      ELSE IF Len(trim(code.s)) = 0 THEN <<"code cannot be empty">>
      ELSE <<>>

\* body[key].toLowerCase() is a TypeError when body[key] is truthy and no string
LowerThrows(body, key) ==
  Truthy(Get(body, key)) /\ Get(body, key).t # "string"

LanguageErrors(body) ==
  LET language == Get(body, "language")
  IN  IF ~Truthy(language) THEN <<"language is required">>
      ELSE IF ~Includes(SUPPORTED_LANGUAGES, toLowerCase(language.s))
        THEN <<"language must be one of: " \o Join(SUPPORTED_LANGUAGES, ", ")>>
      ELSE <<>>

\* a slip of the validator: level compared without lower-casing it
LevelErrors_CaseSensitive(body) ==
  LET level == Get(body, "level")
  IN  IF ~Truthy(level) THEN <<"level is required">>
      ELSE IF ~Includes(SUPPORTED_LEVELS, level.s)
        THEN <<"level must be one of: " \o Join(SUPPORTED_LEVELS, ", ")>>
      ELSE <<>>

LevelErrors(body) ==
  LET level == Get(body, "level")
  IN  IF ~Truthy(level) THEN <<"level is required">>
      ELSE IF ~Includes(SUPPORTED_LEVELS, toLowerCase(level.s))
        THEN <<"level must be one of: " \o Join(SUPPORTED_LEVELS, ", ")>>
      ELSE <<>>

\* a slip of the validator: hintLevel treated as a required field
HintLevelErrors_Required(body) ==
  LET hintLevel == Get(body, "hintLevel")
      hint == parseInt(hintLevel)
  IN  IF hint.nan \/ hint.v < 1 \/ hint.v > MAX_HINT_LEVEL
        THEN <<"hintLevel must be between 1 and " \o NatToString(MAX_HINT_LEVEL)>>
        ELSE <<>>

HintLevelErrors(body) ==
  LET hintLevel == Get(body, "hintLevel")
      hint == parseInt(hintLevel)
  IN  IF hintLevel.t # "undefined"
         /\ (hint.nan \/ hint.v < 1 \/ hint.v > MAX_HINT_LEVEL)
        THEN <<"hintLevel must be between 1 and " \o NatToString(MAX_HINT_LEVEL)>>
        ELSE <<>>

\* validateAnalyzeRequest(body): threw is TRUE when the call ends in a TypeError
validateAnalyzeRequest(body) ==
  IF LowerThrows(body, "language") \/ LowerThrows(body, "level")
    THEN [threw |-> TRUE, valid |-> FALSE, errors |-> <<>>]
    ELSE LET errors == CodeErrors(body) \o LanguageErrors(body)
                         \o LevelErrors(body) \o HintLevelErrors(body)
         IN  [threw |-> FALSE, valid |-> Len(errors) = 0, errors |-> errors]

-----------------------------------------------------------------------------
(* Regular-expression building blocks                                      *)

\* \w
IsWordChar(c) ==
  \/ IsDigit(c)
  \/ c = "_"
  \/ \E i \in 1..26 : At(UpperLetters, i) = c \/ At(LowerLetters, i) = c

\* the character at position i, "" outside the string
CharAt(str, i) == IF i >= 1 /\ i <= Len(str) THEN At(str, i) ELSE ""

\* the literal lit stands at position i of str
LitAt(str, i, lit) ==
  i >= 1 /\ i + Len(lit) - 1 <= Len(str) /\ SubSeq(str, i, i + Len(lit) - 1) = lit

\* \b between positions i-1 and i
BoundaryAt(str, i) == IsWordChar(CharAt(str, i - 1)) # IsWordChar(CharAt(str, i))

\* \bword\b at position i
WordAt(str, i, word) ==
  LitAt(str, i, word) /\ BoundaryAt(str, i) /\ BoundaryAt(str, i + Len(word))

RECURSIVE SkipSpaces(_, _)
\* the first position from i on that holds no white space
SkipSpaces(str, i) ==
  IF i <= Len(str) /\ IsSpace(At(str, i)) THEN SkipSpaces(str, i + 1) ELSE i

\* str.includes(lit)
Contains(str, lit) == \E i \in 1..Len(str) : LitAt(str, i, lit)

\* str.indexOf(lit, i), 0 when there is none
IndexOfFrom(str, lit, i) ==
  LET hits == {j \in i..(Len(str) - Len(lit) + 1) : LitAt(str, j, lit)}
  IN  IF hits = {} THEN 0 ELSE CHOOSE j \in hits : \A k \in hits : j <= k

RECURSIVE SplitFrom(_, _, _)
SplitFrom(str, sep, i) ==
  LET j == IndexOfFrom(str, sep, i)
  IN  IF j = 0 THEN <<SubSeq(str, i, Len(str))>>
      ELSE <<SubSeq(str, i, j - 1)>> \o SplitFrom(str, sep, j + Len(sep))

\* str.split(sep)
Split(str, sep) == SplitFrom(str, sep, 1)

-----------------------------------------------------------------------------
(* utils/errorDetector.js                                                  *)

\* a detected error; line 0 stands for an error without a line property
DetectedError(type, description, line, severity) ==
  [type |-> type, description |-> description, line |-> line,
   severity |-> severity]

RECURSIVE StripStrings(_, _)
\* code.replace(/"[^"]*"|'[^']*'/g, '""'), from position i on
StripStrings(code, i) ==
  IF i > Len(code) THEN ""
  ELSE LET c == At(code, i)
           close == IF c \in {"\"", "'"} THEN IndexOfFrom(code, c, i + 1) ELSE 0
       IN  IF close # 0 THEN "\"\"" \o StripStrings(code, close + 1)
           ELSE c \o StripStrings(code, i + 1)

Openers == {"(", "[", "{"}
Closers == {")", "]", "}"}
Pair(c) == CASE c = "(" -> ")" [] c = "[" -> "]" [] c = "{" -> "}"

RECURSIVE ScanBrackets(_, _, _)
\* the loop of checkBracketBalance over cleanCode from position i, the stack
\* holding the openers not yet closed
ScanBrackets(cleanCode, i, stack) ==
  IF i > Len(cleanCode)
    THEN IF Len(stack) > 0
           THEN [balanced |-> FALSE, type |-> "bracket",
                 message |-> "Unclosed: " \o Join(stack, ", ")]
           ELSE [balanced |-> TRUE, type |-> "", message |-> ""]
  ELSE LET char == At(cleanCode, i)
       IN  IF char \in Openers
             THEN ScanBrackets(cleanCode, i + 1, Append(stack, char))
           ELSE IF char \in Closers
             THEN IF Len(stack) = 0
                    THEN [balanced |-> FALSE, type |-> "bracket",
                          message |-> "Unexpected '" \o char \o "'"]
                  ELSE IF Pair(stack[Len(stack)]) # char
                    THEN [balanced |-> FALSE, type |-> "bracket",
                          message |-> "Expected '" \o Pair(stack[Len(stack)])
                                        \o "' but found '" \o char \o "'"]
                  ELSE ScanBrackets(cleanCode, i + 1,
                                    SubSeq(stack, 1, Len(stack) - 1))
           ELSE ScanBrackets(cleanCode, i + 1, stack)

checkBracketBalance(code) == ScanBrackets(StripStrings(code, 1), 1, <<>>)

\* the typo table: misspelling, intended word
Typos ==
  <<<<"pirnt", "print">>, <<"retrun", "return">>, <<"funciton", "function">>,
    <<"vraible", "variable">>, <<"lenght", "length">>, <<"widht", "width">>>>

\* /\bword\b/gi.test(code) on a pattern object whose lastIndex is given: the
\* search starts there; a match leaves lastIndex behind its end, a failure
\* leaves it at 0
TestGlobal(code, word, lastIndex) ==
  LET lower == toLowerCase(code)
      hits == {i \in (lastIndex + 1)..Len(lower) : WordAt(lower, i, word)}
  IN  IF hits = {} THEN [found |-> FALSE, lastIndex |-> 0]
      ELSE [found |-> TRUE,
            lastIndex |-> (CHOOSE i \in hits : \A j \in hits : i <= j) - 1 + Len(word)]

\* /\bword\b/gi.test(code), on a fresh pattern
HasWordIgnoreCase(code, word) == TestGlobal(code, word, 0).found

\* the lastIndex of six pattern objects that have not been used
UnusedPatterns == [k \in 1..Len(Typos) |-> 0]

\* a variant in which the table is built once, when the module is loaded,
\* and every call uses the same six pattern objects
TypoPatterns_BuiltOnce(left) == left

\* const typos = [...]: the table is built in each call of detectCommonErrors,
\* whatever lastIndex the pattern objects of earlier calls were left with
TypoPatterns(left) == UnusedPatterns

\* typo.pattern.test(code) for each entry of the table
TypoScan(code, left) ==
  [k \in 1..Len(Typos) |-> TestGlobal(code, Typos[k][1], TypoPatterns(left)[k])]

\* the lastIndex of the six pattern objects after the loop over the table
LeftByScan(code, left) == [k \in 1..Len(Typos) |-> TypoScan(code, left)[k].lastIndex]

RECURSIVE TypoErrors(_, _)
\* the loop over the table from entry k on, scan holding the results of test
TypoErrors(scan, k) ==
  IF k > Len(Typos) THEN <<>>
  ELSE (IF scan[k].found
          THEN <<DetectedError("typo",
                   "Possible typo: Did you mean '" \o Typos[k][2] \o "'?",
                   0, "warning")>>
          ELSE <<>>) \o TypoErrors(scan, k + 1)

\* /while\s*\(\s*(true|1|True)\s*\)/.test(line)
WhileTrueAt(line, i) ==
  /\ LitAt(line, i, "while")
  /\ LET p == SkipSpaces(line, i + 5)
     IN  /\ CharAt(line, p) = "("
         /\ LET q == SkipSpaces(line, p + 1)
            IN  \E lit \in {"true", "1", "True"} :
                  /\ LitAt(line, q, lit)
                  /\ CharAt(line, SkipSpaces(line, q + Len(lit))) = ")"

HasWhileTrue(line) == \E i \in 1..Len(line) : WhileTrueAt(line, i)

\* /\bbreak\b/.test(text)
HasBreak(text) == \E i \in 1..Len(text) : WordAt(text, i, "break")

\* how many lines after a while(true) are searched for a break, itself included
BreakWindow == 10

RECURSIVE InfiniteLoopErrors(_, _)
\* lines.forEach of detectCommonErrors, from line number k on
InfiniteLoopErrors(lines, k) ==
  IF k > Len(lines) THEN <<>>
  ELSE LET last == IF k + BreakWindow - 1 < Len(lines)
                     THEN k + BreakWindow - 1 ELSE Len(lines)
           nextLines == Join(SubSeq(lines, k, last), "\n")
       IN  (IF HasWhileTrue(lines[k]) /\ ~HasBreak(nextLines)
              THEN <<DetectedError("logic",
                       "Potential infinite loop: while(true) without visible break statement",
                       k, "warning")>>
              ELSE <<>>) \o InfiniteLoopErrors(lines, k + 1)

BracketErrors(code) ==
  LET bracketBalance == checkBracketBalance(code)
  IN  IF ~bracketBalance.balanced
        THEN <<DetectedError("syntax",
                 "Unbalanced " \o bracketBalance.type \o ": "
                   \o bracketBalance.message, 0, "error")>>
        ELSE <<>>

\* a variant that reports the infinite loops before the other findings
detectCommonErrorsAfter_LoopsFirst(code, lines, left) ==
  InfiniteLoopErrors(lines, 1) \o BracketErrors(code)
  \o TypoErrors(TypoScan(code, left), 1)

\* detectCommonErrors in a process whose earlier calls left the lastIndex
\* values given
detectCommonErrorsAfter(code, lines, left) ==
  BracketErrors(code) \o TypoErrors(TypoScan(code, left), 1)
  \o InfiniteLoopErrors(lines, 1)

detectCommonErrors(code, lines) == detectCommonErrorsAfter(code, lines, UnusedPatterns)

PythonHeaders ==
  {"if", "elif", "else", "for", "while", "def", "class", "try", "except",
   "finally", "with"}

\* /^\s*(if|elif|else|for|while|def|class|try|except|finally|with)\b[^:]*$/
HeaderWithoutColon(line) ==
  LET p == SkipSpaces(line, 1)
  IN  \E kw \in PythonHeaders :
        /\ LitAt(line, p, kw)
        /\ BoundaryAt(line, p + Len(kw))
        /\ \A j \in (p + Len(kw))..Len(line) : At(line, j) # ":"

\* line.trim().endsWith(':')
EndsWithColon(line) ==
  LET t == trim(line) IN t # "" /\ At(t, Len(t)) = ":"

\* the . of a pattern: any character but a line terminator
IsDot(c) == c \notin {"\n", "\r"}

\* /\b(if|elif|while)\s+.*[^=!<>]=(?!=)/
AssignInCondition(line) ==
  \E i \in 1..Len(line) : \E kw \in {"if", "elif", "while"} :
    /\ LitAt(line, i, kw)
    /\ BoundaryAt(line, i)
    /\ IsSpace(CharAt(line, i + Len(kw)))
    /\ \E q \in (i + Len(kw) + 1)..(Len(line) - 1) :
         \* \s+ takes the positions up to some r, .* those from r+1 to q-1
         /\ \E r \in (i + Len(kw))..(q - 1) :
              /\ \A j \in (i + Len(kw))..r : IsSpace(At(line, j))
              /\ \A j \in (r + 1)..(q - 1) : IsDot(At(line, j))
         /\ At(line, q) \notin {"=", "!", "<", ">"}
         /\ At(line, q + 1) = "="
         /\ CharAt(line, q + 2) # "="

\* /\bprint\s+[^(]/
PrintThenOther(line) ==
  \E i \in 1..Len(line) :
    /\ LitAt(line, i, "print")
    /\ BoundaryAt(line, i)
    /\ \E q \in (i + 6)..Len(line) :
         /\ \A j \in (i + 5)..(q - 1) : IsSpace(At(line, j))
         /\ At(line, q) # "("

\* /\bprint\s*$/
PrintAtEnd(line) ==
  \E i \in 1..Len(line) :
    /\ LitAt(line, i, "print")
    /\ BoundaryAt(line, i)
    /\ SkipSpaces(line, i + 5) = Len(line) + 1

RECURSIVE SkipChar(_, _, _)
\* the first position from i on that does not hold c
SkipChar(str, i, c) ==
  IF i <= Len(str) /\ At(str, i) = c THEN SkipChar(str, i + 1, c) ELSE i

\* /^\t+ / or /^ +\t/
MixedIndent(line) ==
  \/ CharAt(line, 1) = "\t" /\ CharAt(line, SkipChar(line, 1, "\t")) = " "
  \/ CharAt(line, 1) = " " /\ CharAt(line, SkipChar(line, 1, " ")) = "\t"

\* the body of lines.forEach in detectPythonErrors for line number k
PythonLineErrors(line, k) ==
  (IF HeaderWithoutColon(line) /\ ~EndsWithColon(line) /\ ~Contains(line, "#")
     THEN <<DetectedError("syntax",
              "Python requires a colon (:) at the end of this statement",
              k, "error")>>
     ELSE <<>>)
  \o (IF AssignInCondition(line)
        THEN <<DetectedError("logic",
                 "Are you assigning (=) when you meant to compare (==)?",
                 k, "warning")>>
        ELSE <<>>)
  \o (IF PrintThenOther(line) /\ ~PrintAtEnd(line)
        THEN <<DetectedError("syntax",
                 "In Python 3, print is a function: use print() with parentheses",
                 k, "error")>>
        ELSE <<>>)
  \o (IF MixedIndent(line)
        THEN <<DetectedError("style",
                 "Mixing tabs and spaces for indentation can cause issues",
                 k, "warning")>>
        ELSE <<>>)

RECURSIVE PythonErrorsFrom(_, _)
PythonErrorsFrom(lines, k) ==
  IF k > Len(lines) THEN <<>>
  ELSE PythonLineErrors(lines[k], k) \o PythonErrorsFrom(lines, k + 1)

detectPythonErrors(code, lines) == PythonErrorsFrom(lines, 1)

\* str.startsWith(lit), str.endsWith(lit)
StartsWith(str, lit) == LitAt(str, 1, lit)
EndsWith(str, lit) == LitAt(str, Len(str) - Len(lit) + 1, lit)

\* /\w+\s*[=+\-*/]/
WordThenOperator(str) ==
  \E j \in 1..Len(str) :
    /\ IsWordChar(At(str, j))
    /\ CharAt(str, SkipSpaces(str, j + 1)) \in {"=", "+", "-", "*", "/"}

\* /^\s*(kw1|kw2|...)\s*/ on a trimmed line: the line starts with a keyword
StartsWithAny(str, kws) == \E kw \in kws : LitAt(str, SkipSpaces(str, 1), kw)

\* the missing-semicolon heuristic of detectCErrors
CMissingSemicolon(line) ==
  LET trimmed == trim(line)
  IN  /\ trimmed # ""
      /\ ~EndsWith(trimmed, ";")
      /\ ~EndsWith(trimmed, "{")
      /\ ~EndsWith(trimmed, "}")
      /\ ~EndsWith(trimmed, ":")
      /\ ~StartsWith(trimmed, "//")
      /\ ~StartsWith(trimmed, "#")
      /\ ~StartsWith(trimmed, "/*")
      /\ ~StartsWith(trimmed, "*")
      /\ ~StartsWithAny(trimmed, {"if", "else", "for", "while", "switch", "do"})
      /\ WordThenOperator(trimmed)

\* /\b(if|while)\s*\([^)]*[^=!<>]=(?!=)[^=]/
CAssignInCondition(line) ==
  \E i \in 1..Len(line) : \E kw \in {"if", "while"} :
    /\ LitAt(line, i, kw)
    /\ BoundaryAt(line, i)
    /\ LET open == SkipSpaces(line, i + Len(kw))
       IN  /\ CharAt(line, open) = "("
           /\ \E q \in (open + 1)..(Len(line) - 2) :
                /\ \A j \in (open + 1)..(q - 1) : At(line, j) # ")"
                /\ At(line, q) \notin {"=", "!", "<", ">"}
                /\ At(line, q + 1) = "="
                /\ At(line, q + 2) # "="

RECURSIVE SkipDigits(_, _)
SkipDigits(str, i) ==
  IF i <= Len(str) /\ IsDigit(At(str, i)) THEN SkipDigits(str, i + 1) ELSE i

RECURSIVE SkipSpacesBack(_, _)
\* the last position up to i that holds no white space, 0 when there is none
SkipSpacesBack(str, i) ==
  IF i >= 1 /\ IsSpace(At(str, i)) THEN SkipSpacesBack(str, i - 1) ELSE i

\* /\w+\s*\[\s*(\d+)\s*\]/ with its [ at position b
ArrayDeclAt(code, b) ==
  /\ CharAt(code, b) = "["
  /\ IsWordChar(CharAt(code, SkipSpacesBack(code, b - 1)))
  /\ LET d == SkipSpaces(code, b + 1)
     IN  /\ IsDigit(CharAt(code, d))
         /\ CharAt(code, SkipSpaces(code, SkipDigits(code, d))) = "]"

\* code.match(/\w+\s*\[\s*(\d+)\s*\]/): matched, and parseInt of the group
ArrayDecl(code) ==
  IF \E b \in 1..Len(code) : ArrayDeclAt(code, b)
    THEN LET b == CHOOSE x \in 1..Len(code) :
                    /\ ArrayDeclAt(code, x)
                    /\ \A y \in 1..(x - 1) : ~ArrayDeclAt(code, y)
         IN  [matched |-> TRUE,
              size |-> DigitsValue(SubSeq(code, SkipSpaces(code, b + 1),
                                          Len(code)), 0)]
    ELSE [matched |-> FALSE, size |-> 0]

\* new RegExp(`\\[\\s*${size}\\s*\\]`, 'g').test(line)
AccessAtSize(line, size) ==
  \E b \in 1..Len(line) :
    /\ At(line, b) = "["
    /\ LET d == SkipSpaces(line, b + 1)
       IN  /\ LitAt(line, d, NatToString(size))
           /\ CharAt(line, SkipSpaces(line, d + Len(NatToString(size)))) = "]"

\* the body of lines.forEach in detectCErrors for line number k
CLineErrors(code, line, k) ==
  (IF CMissingSemicolon(line)
     THEN <<DetectedError("syntax", "This line might be missing a semicolon",
              k, "warning")>>
     ELSE <<>>)
  \o (IF CAssignInCondition(line)
        THEN <<DetectedError("logic",
                 "Using assignment (=) instead of comparison (==) in condition",
                 k, "warning")>>
        ELSE <<>>)
  \o (LET arrayDecl == ArrayDecl(code)
      IN  IF arrayDecl.matched /\ AccessAtSize(line, arrayDecl.size)
            THEN <<DetectedError("logic",
                     "Array index " \o NatToString(arrayDecl.size)
                       \o " is out of bounds for array of size "
                       \o NatToString(arrayDecl.size)
                       \o " (valid indices: 0 to "
                       \o NumberToString((arrayDecl.size - 1) * 10) \o ")",
                     k, "error")>>
            ELSE <<>>)

RECURSIVE CErrorsFrom(_, _, _)
CErrorsFrom(code, lines, k) ==
  IF k > Len(lines) THEN <<>>
  ELSE CLineErrors(code, lines[k], k) \o CErrorsFrom(code, lines, k + 1)

\* code longer than this is taken for a complete program
MinProgramLength == 50

\* /\bmain\s*\(/
HasMain(code) ==
  \E i \in 1..Len(code) :
    /\ LitAt(code, i, "main")
    /\ BoundaryAt(code, i)
    /\ CharAt(code, SkipSpaces(code, i + 4)) = "("

detectCErrors(code, lines) ==
  CErrorsFrom(code, lines, 1)
  \o (IF ~Contains(code, "#include") /\ Len(code) > MinProgramLength
         /\ ~HasMain(code)
        THEN <<DetectedError("structure",
                 "C/C++ programs need a main() function as the entry point",
                 0, "info")>>
        ELSE <<>>)

\* /kw\s+\w+/ with an optional \b in front
WordThenName(code, kw, bounded) ==
  \E i \in 1..Len(code) :
    /\ LitAt(code, i, kw)
    /\ bounded => BoundaryAt(code, i)
    /\ IsSpace(CharAt(code, i + Len(kw)))
    /\ IsWordChar(CharAt(code, SkipSpaces(code, i + Len(kw))))

\* /==\s*"/
ComparesWithLiteral(line) ==
  \E i \in 1..Len(line) :
    LitAt(line, i, "==") /\ CharAt(line, SkipSpaces(line, i + 2)) = "\""

\* /^\s*(public|private|protected|static|final|abstract)\s+(class|interface|enum)/
ModifiedTypeHeader(str) ==
  LET p == SkipSpaces(str, 1)
  IN  \E m \in {"public", "private", "protected", "static", "final", "abstract"} :
        /\ LitAt(str, p, m)
        /\ IsSpace(CharAt(str, p + Len(m)))
        /\ \E w \in {"class", "interface", "enum"} :
             LitAt(str, SkipSpaces(str, p + Len(m)), w)

\* the missing-semicolon heuristic of detectJavaErrors
JavaMissingSemicolon(line) ==
  LET trimmed == trim(line)
  IN  /\ trimmed # ""
      /\ ~EndsWith(trimmed, ";")
      /\ ~EndsWith(trimmed, "{")
      /\ ~EndsWith(trimmed, "}")
      /\ ~StartsWith(trimmed, "//")
      /\ ~StartsWith(trimmed, "/*")
      /\ ~StartsWith(trimmed, "*")
      /\ ~StartsWith(trimmed, "@")
      /\ ~StartsWithAny(trimmed,
            {"if", "else", "for", "while", "switch", "do", "try", "catch",
             "finally", "class", "interface", "enum"})
      /\ ~ModifiedTypeHeader(trimmed)
      /\ WordThenOperator(trimmed)

\* the body of lines.forEach in detectJavaErrors for line number k
JavaLineErrors(code, line, k) ==
  (IF WordThenName(code, "String", FALSE) /\ ComparesWithLiteral(line)
     THEN <<DetectedError("logic",
              "In Java, compare Strings using .equals() not ==", k, "error")>>
     ELSE <<>>)
  \o (IF JavaMissingSemicolon(line)
        THEN <<DetectedError("syntax", "This line might be missing a semicolon",
                 k, "warning")>>
        ELSE <<>>)

RECURSIVE JavaErrorsFrom(_, _, _)
JavaErrorsFrom(code, lines, k) ==
  IF k > Len(lines) THEN <<>>
  ELSE JavaLineErrors(code, lines[k], k) \o JavaErrorsFrom(code, lines, k + 1)

\* /public\s+static\s+void\s+main/
HasMainSignature(code) ==
  \E i \in 1..Len(code) :
    /\ LitAt(code, i, "public")
    /\ IsSpace(CharAt(code, i + 6))
    /\ LET s1 == SkipSpaces(code, i + 6)
       IN  /\ LitAt(code, s1, "static")
           /\ IsSpace(CharAt(code, s1 + 6))
           /\ LET s2 == SkipSpaces(code, s1 + 6)
              IN  /\ LitAt(code, s2, "void")
                  /\ IsSpace(CharAt(code, s2 + 4))
                  /\ LitAt(code, SkipSpaces(code, s2 + 4), "main")

detectJavaErrors(code, lines) ==
  JavaErrorsFrom(code, lines, 1)
  \o (IF ~WordThenName(code, "class", TRUE) /\ Len(code) > MinProgramLength
        THEN <<DetectedError("structure", "Java code must be inside a class",
                 0, "info")>>
        ELSE <<>>)
  \o (IF WordThenName(code, "class", TRUE) /\ ~HasMainSignature(code)
        THEN <<DetectedError("structure",
                 "Java programs need a main method: public static void main(String[] args)",
                 0, "info")>>
        ELSE <<>>)

\* detectErrors(code, language): the common checks, then those of the language
detectLanguageErrors(code, lines, lang) ==
  CASE lang = "python" -> detectPythonErrors(code, lines)
    [] lang \in {"c", "cpp"} -> detectCErrors(code, lines)
    [] lang = "java" -> detectJavaErrors(code, lines)
    [] OTHER -> <<>>

\* detectErrors in a process whose earlier calls left the lastIndex values given
detectErrorsAfter(code, language, left) ==
  LET lines == Split(code, "\n")
  IN  detectCommonErrorsAfter(code, lines, left)
      \o detectLanguageErrors(code, lines, toLowerCase(language))

detectErrors(code, language) ==
  LET lines == Split(code, "\n")
  IN  detectCommonErrors(code, lines)
      \o detectLanguageErrors(code, lines, toLowerCase(language))

-----------------------------------------------------------------------------
(* services/aiService.js: the heuristic fallback texts                     *)

\* languageMap[language.toLowerCase()] || language.toLowerCase()
normalizeLanguage(language) ==
  LET lower == toLowerCase(language)
  IN  CASE lower = "py" -> "python"
        [] lower = "c++" -> "cpp"
        [] OTHER -> lower

\* Math.min(a, b)
Min(a, b) == IF a < b THEN a ELSE b

\* hintLevel - 1 as a number: ToNumber of the value, minus one; NaN when the
\* value is no number and no numeric text
HintIndex(hintLevel) ==
  CASE hintLevel.t = "number" /\ hintLevel.n % 10 = 0 ->
         [nan |-> FALSE, whole |-> TRUE, v |-> hintLevel.n \div 10 - 1]
    [] hintLevel.t = "number" ->
         [nan |-> FALSE, whole |-> FALSE, v |-> 0]
    [] hintLevel.t = "string" /\ trim(hintLevel.s) # ""
         /\ SkipDigits(trim(hintLevel.s), 1) = Len(trim(hintLevel.s)) + 1 ->
         [nan |-> FALSE, whole |-> TRUE,
          v |-> DigitsValue(trim(hintLevel.s), 0) - 1]
    [] OTHER -> [nan |-> TRUE, whole |-> FALSE, v |-> 0]

\* a variant that reads hints[hintLevel - 1] without the upper clamp
PickHint_NoClamp(hints, hintLevel) ==
  LET idx == HintIndex(hintLevel)
  IN  IF idx.nan \/ ~idx.whole \/ idx.v < 0 \/ idx.v >= Len(hints) THEN Undef
      ELSE Str(hints[idx.v + 1])

\* a variant that reads hints[hintLevel], without the offset of one
PickHint_NoOffset(hints, hintLevel) ==
  LET idx == HintIndex(hintLevel)
      index == Min(idx.v + 1, Len(hints) - 1)
  IN  IF idx.nan \/ ~idx.whole \/ index < 0 THEN Undef
      ELSE Str(hints[index + 1])

\* hints[Math.min(hintLevel - 1, hints.length - 1)]: undefined when the index is
\* NaN, negative or no whole number
PickHint(hints, hintLevel) ==
  LET idx == HintIndex(hintLevel)
      index == Min(idx.v, Len(hints) - 1)
  IN  IF idx.nan \/ ~idx.whole \/ index < 0 THEN Undef
      ELSE Str(hints[index + 1])

SyntaxHints ==
  <<"Look carefully at the end of your lines...",
    "Some statements need specific punctuation to end properly.",
    "Check if you're missing any required symbols after your statements.",
    "In this language, certain keywords require specific characters afterward.",
    "Look for missing semicolons, colons, or brackets at the end of statements.">>

LogicHints ==
  <<"Think about what your code actually does vs. what you want it to do.",
    "Walk through your code line by line - what value does each variable have?",
    "Consider: is there a difference between assigning a value and comparing values?",
    "Check your operators carefully - are you using the right one for the job?",
    "You might be using a single equals when you need a double equals, or vice versa.">>

TypoHints ==
  <<"Read your code out loud - does everything sound right?",
    "Check your spelling of function and variable names.",
    "Compare your keywords with the official documentation spelling.",
    "Look for common letter swaps in your keywords.",
    "There's a misspelling - check words that look similar to common keywords.">>

StructureHints ==
  <<"Think about what pieces every program in this language needs.",
    "Most programs need a starting point - where does yours begin?",
    "Check if your code has all the required components for this language.",
    "In this language, there's a specific function that runs first.",
    "You may be missing the main function or class structure.">>

\* hintProgressions[error.type] || hintProgressions.logic
hintProgressions(type) ==
  CASE type = "syntax" -> SyntaxHints
    [] type = "logic" -> LogicHints
    [] type = "typo" -> TypoHints
    [] type = "structure" -> StructureHints
    [] OTHER -> LogicHints

getHintForError(error, hintLevel) ==
  PickHint(hintProgressions(error.type), hintLevel)

GenericHints ==
  <<"Start by reading your code from the top. Does each line make sense?",
    "Think about the inputs and outputs. What goes in? What should come out?",
    "Consider edge cases. What happens with empty input? Very large numbers?",
    "Trace through your code with a specific example. Does it produce the right result?",
    "Break the problem into smaller steps. Which step isn't working correctly?">>

getGenericHint(hintLevel) == PickHint(GenericHints, hintLevel)

\* the explanations table: undefined for a type or a level it does not hold
ExplanationOf(type, level) ==
  CASE type = "syntax" /\ level = "basic" ->
         Str("There's a small grammar mistake in your code. Just like English has rules about periods and commas, programming languages have rules about certain symbols.")
    [] type = "syntax" /\ level = "moderate" ->
         Str("There's a syntax error in your code. The computer needs certain symbols to understand where statements begin and end.")
    [] type = "syntax" /\ level = "complex" ->
         Str("Syntax error detected. The parser expects specific tokens at certain positions in your code.")
    [] type = "logic" /\ level = "basic" ->
         Str("The code will run, but it might not do what you expect! It's like following a recipe but mixing up 'teaspoon' and 'tablespoon'.")
    [] type = "logic" /\ level = "moderate" ->
         Str("There's a logical issue here. The code executes, but the behavior may not match your intent.")
    [] type = "logic" /\ level = "complex" ->
         Str("Logic error identified. The semantics of your code differ from the likely intended behavior.")
    [] type = "typo" /\ level = "basic" ->
         Str("Oops! Looks like there might be a spelling mistake. Computers are very picky about exact spelling!")
    [] type = "typo" /\ level = "moderate" ->
         Str("There appears to be a typo. Programming languages require exact keyword spelling.")
    [] type = "typo" /\ level = "complex" ->
         Str("Potential identifier typo detected. Verify your keyword and function name spellings.")
    [] type = "structure" /\ level = "basic" ->
         Str("Your code is missing some important building blocks. Think of it like a house - you need a foundation before you can add the rooms!")
    [] type = "structure" /\ level = "moderate" ->
         Str("The code structure is incomplete. Most programs need certain required elements to work.")
    [] type = "structure" /\ level = "complex" ->
         Str("Structural element missing. Ensure your code has the required program entry point and declarations.")
    [] type = "style" /\ level = "basic" ->
         Str("Your code will work, but it could be cleaner! Good style makes code easier to read and find mistakes.")
    [] type = "style" /\ level = "moderate" ->
         Str("Style issue detected. While not breaking functionality, clean code prevents future bugs.")
    [] type = "style" /\ level = "complex" ->
         Str("Code style inconsistency. Maintaining consistent formatting aids maintainability.")
    [] OTHER -> Undef

\* explanations[error.type]?.[level] || explanations.logic[level]
getExplanationForError(error, language, level) ==
  IF Truthy(ExplanationOf(error.type, level))
    THEN ExplanationOf(error.type, level)
    ELSE ExplanationOf("logic", level)

\* analogies[error.type] || analogies.logic
getAnalogyForError(error) ==
  CASE error.type = "syntax" ->
         "It's like forgetting a period at the end of a sentence. The reader (computer) gets confused about where one thought ends and another begins."
    [] error.type = "typo" ->
         "Like writing 'recieve' instead of 'receive' - you know what you meant, but spell-check doesn't!"
    [] error.type = "structure" ->
         "Think of building with LEGO - you need the base plate before you can stack blocks on top."
    [] error.type = "style" ->
         "Like having a messy room - you can still find things, but it's much harder than if everything was organized."
    [] OTHER ->
         "Imagine giving someone directions to your house, but accidentally telling them to turn left when you meant right. They'll follow your directions perfectly... to the wrong place!"

\* conceptMap[errorType] || 'fundamentals'
getNextConceptFromError(errorType) ==
  CASE errorType = "syntax" -> "language-syntax-rules"
    [] errorType = "logic" -> "debugging-techniques"
    [] errorType = "typo" -> "code-reading-skills"
    [] errorType = "structure" -> "program-organization"
    [] OTHER -> "fundamentals"

\* common[errorType], "" when the table does not hold the type
CommonGuidance(errorType) ==
  CASE errorType = "general" ->
         "Review statement boundaries and required symbols for this language."
    [] errorType = "syntax" ->
         "Check required punctuation and block delimiters for this construct."
    [] errorType = "logic" ->
         "Syntax may be correct, but verify operators and conditions match intent."
    [] errorType = "typo" -> "Keywords and identifiers must be spelled exactly."
    [] errorType = "structure" ->
         "Confirm required program structure for this language."
    [] OTHER -> ""

\* languageSpecific[lang]?.[errorType], "" when there is none
LanguageGuidance(lang, errorType) ==
  CASE lang = "python" /\ errorType = "syntax" ->
         "Python blocks require consistent indentation and a colon after statements."
    [] lang = "python" /\ errorType = "structure" ->
         "Functions and classes must be indented consistently under their headers."
    [] lang = "c" /\ errorType = "syntax" ->
         "C statements typically end with semicolons; blocks use braces."
    [] lang = "c" /\ errorType = "structure" ->
         "C programs require a main entry point."
    [] lang = "cpp" /\ errorType = "syntax" ->
         "C++ statements typically end with semicolons; blocks use braces."
    [] lang = "cpp" /\ errorType = "structure" ->
         "C++ programs require a main entry point."
    [] lang = "java" /\ errorType = "syntax" ->
         "Java statements typically end with semicolons; blocks use braces."
    [] lang = "java" /\ errorType = "structure" ->
         "Java code must be inside a class; entry point is a main method."
    [] OTHER -> ""

getSyntaxGuidance(errorType, language) ==
  LET lang == toLowerCase(language)
  IN  IF LanguageGuidance(lang, errorType) # ""
        THEN LanguageGuidance(lang, errorType)
      ELSE IF CommonGuidance(errorType) # "" THEN CommonGuidance(errorType)
      ELSE CommonGuidance("general")

\* steps[errorType] || steps.general
NextSteps(errorType) ==
  CASE errorType = "syntax" ->
         <<"Find the exact line where the parser would stop and confirm the required token.",
           "Check the line end and block delimiters around the error area.",
           "Verify the statement format against the language's standard pattern.">>
    [] errorType = "logic" ->
         <<"Pick a sample input and simulate each step, noting variable values.",
           "Compare your intended condition with the operator you used.",
           "List the expected output for a simple case and verify the path matches.">>
    [] errorType = "typo" ->
         <<"Compare each keyword with the official spelling in the docs.",
           "Scan for near-miss spellings of functions or variables.",
           "Search for repeated identifiers and confirm they match exactly.">>
    [] errorType = "structure" ->
         <<"List the required structural elements and check which one is missing.",
           "Confirm the entry point signature for this language.",
           "Ensure the code is wrapped in the required container (function/class).">>
    [] OTHER ->
         <<"Trace the flow with a small example and describe each step in words.",
           "Write down what the code should do at each step, then compare it to what it does.",
           "Identify the first point where actual behavior diverges from expected behavior.">>

getNextStep(errorType, level) ==
  LET candidates == NextSteps(errorType)
  IN  candidates[Min(IF level = "complex" THEN 1 ELSE 0, Len(candidates) - 1) + 1]

\* the object without keys
EmptyObject == [k \in {} |-> Undef]

\* value?.length > 0
NonEmpty(v) ==
  \/ v.t = "array" /\ Len(v.a) > 0
  \/ v.t = "string" /\ Len(v.s) > 0

\* `${value[0]}` for a non-empty array of texts or a non-empty text
FirstOf(v) == IF v.t = "array" THEN v.a[1] ELSE At(v.s, 1)

QuestionHints ==
  <<"Here's something to think about - read your code from the top. Does each line make sense in the context of what you're trying to do?",
    "Think about the inputs and outputs. What goes in? What should come out? Are you handling that correctly?",
    "Consider the edge cases. What happens with empty input? Very large numbers? Unexpected values?",
    "Try tracing through your code with a specific example. Does it actually produce what you expect?",
    "Break the problem into smaller steps. Which step isn't quite working the way you want?">>

\* generateQuestionResponse for a question that is a string: the value of reply
generateQuestionResponse(question, hintLevel, learningState) ==
  LET lowerQ == toLowerCase(question)
  IN  IF Contains(lowerQ, "analyze") \/ Contains(lowerQ, "issue")
         \/ Contains(lowerQ, "wrong")
        THEN Str("Alright, let me take a look at what's happening here. I'll walk you through this step by step."
                 \o (IF NonEmpty(Get(learningState, "previousExplanations"))
                       THEN " Building on what we discussed before..." ELSE "")
                 \o " Start by reading through your code line by line - what does each line actually do? Does it match up with what you're trying to accomplish?")
      ELSE IF Contains(lowerQ, "explain") \/ Contains(lowerQ, "what")
              \/ Contains(lowerQ, "does")
        THEN Str("Sure, let's break this down together. Instead of just telling you what it does, let me guide you through understanding it."
                 \o (IF NonEmpty(Get(learningState, "masteredConcepts"))
                       THEN " You already understand "
                            \o FirstOf(Get(learningState, "masteredConcepts"))
                            \o ", so let's build on that."
                       ELSE "")
                 \o " Try tracing through the code mentally - what happens first? Then what? What are the values at each step?")
      ELSE IF Contains(lowerQ, "hint")
        THEN LET hint == PickHint(QuestionHints, hintLevel)
             IN  IF Truthy(Get(learningState, "sameErrorRepeated"))
                   THEN Str("Let's try a different approach. "
                            \o JSToString(hint)
                            \o " Sometimes stepping back and thinking about the problem differently helps.")
                   ELSE hint
      ELSE IF Contains(lowerQ, "logic")
        THEN Str("Let's think about the logic together. What are you actually trying to accomplish? Now look at your code - does each step make sense towards that goal? Sometimes it helps to write out in plain English what you want to happen, then compare that to what your code actually does.")
      ELSE Str("Great question! Let me help you think through this. The key to really learning this is working through it yourself."
               \o (IF Get(learningState, "hintsGivenThisSession").t = "number"
                      /\ Get(learningState, "hintsGivenThisSession").n > 20
                     THEN " I notice you've asked for a few hints already - that's totally fine! Let's approach this from a different angle."
                     ELSE "")
               \o " What's your initial thought about what's happening here? Let's talk through it together.")

\* getFallbackAnalysis with a user question
QuestionFallback(language, level, hintLevel, userQuestion, learningState) ==
  [reply |-> generateQuestionResponse(userQuestion.s, hintLevel, learningState),
   syntax |-> Str(getSyntaxGuidance("general", language)),
   nextStep |-> Str(getNextStep("general", level)),
   conceptsTaught |-> Arr(<<"general-guidance">>),
   suggestedNextConcept |-> Str("problem-decomposition")]

\* getFallbackAnalysis without a question and without detected errors
NoErrorFallback(language, level, hintLevel, learningState) ==
  [explanation |->
     Str("Your code looks structurally sound! Let's think about the logic together."
         \o (IF NonEmpty(Get(learningState, "strugglingConcepts"))
               THEN " Since you've been working on "
                    \o FirstOf(Get(learningState, "strugglingConcepts"))
                    \o ", let's make sure that part is working correctly."
               ELSE " Consider: What should happen at each step? Are you handling all edge cases?")),
   analogy |-> Str("Like proofreading a letter - the spelling might be correct, but does the message make sense?"),
   hint |-> getGenericHint(hintLevel),
   syntax |-> Str(getSyntaxGuidance("general", language)),
   nextStep |-> Str(getNextStep("general", level)),
   conceptsTaught |-> Arr(<<"code-review", "logic-analysis">>),
   suggestedNextConcept |-> Str("edge-cases")]

\* getFallbackAnalysis for the first detected error
ErrorFallback(language, level, hintLevel, mainError) ==
  [explanation |-> getExplanationForError(mainError, language, level),
   analogy |-> Str(getAnalogyForError(mainError)),
   hint |-> getHintForError(mainError, hintLevel),
   syntax |-> Str(getSyntaxGuidance(mainError.type, language)),
   nextStep |-> Str(getNextStep(mainError.type, level)),
   conceptsTaught |-> Arr(<<mainError.type>>),
   suggestedNextConcept |-> Str(getNextConceptFromError(mainError.type))]

\* getFallbackAnalysis: threw when question.toLowerCase() is called on a
\* question that is truthy and no string
getFallbackAnalysis(language, level, hintLevel, detectedErrors, userQuestion, learningState) ==
  IF Truthy(userQuestion)
    THEN IF userQuestion.t # "string"
           THEN [threw |-> TRUE, value |-> EmptyObject]
           ELSE [threw |-> FALSE,
                 value |-> QuestionFallback(language, level, hintLevel,
                                            userQuestion, learningState)]
  ELSE IF Len(detectedErrors) = 0
    THEN [threw |-> FALSE,
          value |-> NoErrorFallback(language, level, hintLevel, learningState)]
  ELSE [threw |-> FALSE,
        value |-> ErrorFallback(language, level, hintLevel, detectedErrors[1])]

-----------------------------------------------------------------------------
(* services/aiService.js: sanitizeResponse                                 *)

\* the least number of body lines of a Python function taken for a solution
MinBodyLines == 5
\* the least number of characters between the braces taken for a solution
MinBraceBody == 200

\* the first position from i on that holds a line terminator, Len + 1 if none
SkipDots(text, i) ==
  LET stops == {j \in i..Len(text) : ~IsDot(At(text, j))}
  IN  IF stops = {} THEN Len(text) + 1
      ELSE CHOOSE j \in stops : \A k \in stops : j <= k

\* the positions of the \n that can end one (\s+.+\n) started at position x
BodyLineEnds(text, x) ==
  {e \in {SkipDots(text, y + 1) : y \in x..(SkipSpaces(text, x) - 1)} :
     /\ CharAt(text, e) = "\n"
     /\ \E y \in x..(SkipSpaces(text, x) - 1) :
          SkipDots(text, y + 1) = e /\ e >= y + 2}

RECURSIVE BodyLines(_, _, _)
\* (\s+.+\n){k,} matches at position x
BodyLines(text, x, k) ==
  \/ k = 0
  \/ \E e \in BodyLineEnds(text, x) : BodyLines(text, e + 1, k - 1)

RECURSIVE SkipWord(_, _)
\* the first position from i on that holds no word character
SkipWord(str, i) ==
  IF i <= Len(str) /\ IsWordChar(At(str, i)) THEN SkipWord(str, i + 1) ELSE i

\* \w+\([^)]*\) at position i: the position after the ), 0 when no match
SignatureEnd(text, i) ==
  LET open == SkipWord(text, i)
      close == IndexOfFrom(text, ")", open + 1)
  IN  IF open > i /\ CharAt(text, open) = "(" /\ close # 0 THEN close + 1
      ELSE 0

\* /def \w+\([^)]*\):\s*\n(\s+.+\n){5,}/
PythonSolutionAt(text, i) ==
  /\ LitAt(text, i, "def ")
  /\ LET after == SignatureEnd(text, i + 4)
     IN  /\ after # 0
         /\ CharAt(text, after) = ":"
         /\ \E nl \in (after + 1)..(SkipSpaces(text, after + 1) - 1) :
              At(text, nl) = "\n" /\ BodyLines(text, nl + 1, MinBodyLines)

\* \s*\{[\s\S]{200,}\} at position i
LongBraceBody(text, i) ==
  LET brace == SkipSpaces(text, i)
  IN  /\ CharAt(text, brace) = "{"
      /\ \E close \in (brace + MinBraceBody + 1)..Len(text) :
           At(text, close) = "}"

\* /function \w+\([^)]*\)\s*\{[\s\S]{200,}\}/
FunctionSolutionAt(text, i) ==
  /\ LitAt(text, i, "function ")
  /\ LET after == SignatureEnd(text, i + 9)
     IN  after # 0 /\ LongBraceBody(text, after)

\* \w+\s+\w+\([^)]*\)\s*\{[\s\S]{200,}\} at position i
TypedMethodAt(text, i) ==
  LET typeEnd == SkipWord(text, i)
      after == SignatureEnd(text, SkipSpaces(text, typeEnd))
  IN  /\ typeEnd > i
      /\ IsSpace(CharAt(text, typeEnd))
      /\ after # 0
      /\ LongBraceBody(text, after)

\* /public\s+(static\s+)?\w+\s+\w+\([^)]*\)\s*\{[\s\S]{200,}\}/
MethodSolutionAt(text, i) ==
  /\ LitAt(text, i, "public")
  /\ IsSpace(CharAt(text, i + 6))
  /\ LET first == SkipSpaces(text, i + 6)
     IN  \/ TypedMethodAt(text, first)
         \/ /\ LitAt(text, first, "static")
            /\ IsSpace(CharAt(text, first + 6))
            /\ TypedMethodAt(text, SkipSpaces(text, first + 6))

\* a variant that only knows the Python pattern
hasCompleteSolution_PythonOnly(text) ==
  \E i \in 1..Len(text) : PythonSolutionAt(text, i)

\* some completeSolutionPatterns entry matches the text
hasCompleteSolution(text) ==
  \E i \in 1..Len(text) :
    \/ PythonSolutionAt(text, i)
    \/ FunctionSolutionAt(text, i)
    \/ MethodSolutionAt(text, i)

\* the backquote, written ~ here: a TLA+ string cannot hold a backquote, and no
\* text of the model holds a ~ of its own
Backquote == "~"
Fence == Backquote \o Backquote \o Backquote
\* a variant whose placeholder does not close its fence
Placeholder_Unclosed ==
  Fence \o "\n[Complete solution removed - try writing it yourself!]\n"

Placeholder ==
  Fence \o "\n[Complete solution removed - try writing it yourself!]\n" \o Fence

RECURSIVE ReplaceFences(_, _)
\* text.replace(/```[\s\S]*?```/g, Placeholder), from position i on
ReplaceFences(text, i) ==
  LET open == IndexOfFrom(text, Fence, i)
      close == IF open = 0 THEN 0 ELSE IndexOfFrom(text, Fence, open + 3)
  IN  IF close = 0 THEN SubSeq(text, i, Len(text))
      ELSE SubSeq(text, i, open - 1) \o Placeholder
           \o ReplaceFences(text, close + 3)

\* a variant that copies the reply alone
Spread_ReplyOnly(response) ==
  IF response.isObject /\ "reply" \in DOMAIN response.fields
    THEN [k \in {"reply"} |-> response.fields[k]]
    ELSE EmptyObject

\* { ...response }: the own keys of an object, none for null
Spread(response) == IF response.isObject THEN response.fields ELSE EmptyObject

\* the argument of sanitizeResponse after the call: sanitized.reply = ... is
\* an assignment to the copy
ResponseAfterCall(response) == response

\* sanitizeResponse(response): threw when a reply that is no string and whose
\* text matches a pattern is asked for its replace method
sanitizeResponse(response) ==
  LET sanitized == Spread(response)
      reply == Get(sanitized, "reply")
  IN  IF Truthy(reply) /\ hasCompleteSolution(JSToString(reply))
        THEN IF reply.t # "string"
               THEN [threw |-> TRUE, value |-> EmptyObject]
               ELSE [threw |-> FALSE,
                     value |-> [k \in DOMAIN sanitized |->
                                 IF k = "reply"
                                   THEN Str(ReplaceFences(reply.s, 1))
                                   ELSE sanitized[k]]]
        ELSE [threw |-> FALSE, value |-> sanitized]

-----------------------------------------------------------------------------
(* The validator on its own: one call on each request object               *)

\* the object holding the given fields, a field given as undefined being absent
MkObj(all) == [k \in {key \in DOMAIN all : all[key].t # "undefined"} |-> all[k]]

CodeValues == {Undef, Null, Str(""), Str("  "), Str("x"), Num(50), Obj}
LanguageValues ==
  {Undef, Str(""), Str("python"), Str("Python"), Str("C"), Str("cpp"),
   Str("java"), Str("ruby"), Num(50), Num(0), Bool(TRUE), Null, Obj}
LevelValues ==
  {Undef, Str("basic"), Str("moderate"), Str("complex"), Str("BASIC"),
   Str("expert"), Num(10), Bool(FALSE), Obj}
HintLevelValues ==
  {Undef, Null, Num(0), Num(10), Num(30), Num(50), Num(59), Num(60), Num(25),
   Num(-10), Str("3"), Str("4x"), Str("abc"), Str(" 2"), Bool(TRUE), Obj}

RawBodies ==
  {MkObj([code |-> c, language |-> l, level |-> v, hintLevel |-> h]) :
     c \in CodeValues, l \in LanguageValues, v \in LevelValues,
     h \in HintLevelValues}

NoResult == [threw |-> FALSE, valid |-> FALSE, errors |-> <<"not called">>]

\* the request object is drawn, the validator not yet called
VInit ==
  /\ vBody \in RawBodies
  /\ vBodyAfter = vBody
  /\ vResult = NoResult
  /\ OnlyV

\* the call validateAnalyzeRequest(vBody); the function only reads its argument
Validate ==
  /\ vResult = NoResult
  /\ vResult' = validateAnalyzeRequest(vBody)
  /\ vBodyAfter' = vBody
  /\ UNCHANGED <<vBody, notV>>

VNext == Validate

SpecValidate == VInit /\ [][VNext]_vars

VCalled == vResult # NoResult
EmptyBody == DOMAIN vBody = {}

\* C1 as stated: validateAnalyzeRequest({}) returns valid=false and exactly four
\* messages, one for each of code, language, level and hintLevel.
C1_FourMessages ==
  (VCalled /\ EmptyBody) =>
    (~vResult.threw /\ ~vResult.valid /\ Len(vResult.errors) = 4)

\* C1 as amended: validateAnalyzeRequest({}) returns valid=false and exactly the
\* three messages for code, language and level, in that order; the absent
\* hintLevel adds no message.
C1_ThreeMessages ==
  (VCalled /\ EmptyBody) =>
    /\ ~vResult.threw
    /\ ~vResult.valid
    /\ vResult.errors =
         <<"code is required", "language is required", "level is required">>

C1_Witness == VCalled /\ EmptyBody

\* C2 as stated: for a request object with fields of any type, the validator
\* returns a {valid, errors} result without throwing and leaves the object as
\* it was.
C2_NeverThrows == VCalled => (~vResult.threw /\ vBodyAfter = vBody)

\* what C3 requires of each field
C3_CodeOk(v) == v.t = "string" /\ \E i \in 1..Len(v.s) : ~IsSpace(At(v.s, i))
C3_LanguageOk(v) ==
  v.t = "string" /\ toLowerCase(v.s) \in {"python", "c", "cpp", "java"}
C3_LevelExact(v) == v.t = "string" /\ v.s \in {"basic", "moderate", "complex"}
C3_LevelAnyCase(v) ==
  v.t = "string" /\ toLowerCase(v.s) \in {"basic", "moderate", "complex"}
C3_HintInteger(v) ==
  v.t = "undefined" \/ (v.t = "number" /\ v.n \in {10, 20, 30, 40, 50})
\* the text of the value starts, after white space, with an integer in 1..5: a
\* number from 1 up to but not 6, or a string whose first digits read 1..5
C3_HintParses(v) ==
  \/ v.t = "undefined"
  \/ v.t = "number" /\ v.n >= 10 /\ v.n < 60
  \/ /\ v.t = "string"
     /\ LET str == trimStart(v.s)
        IN  /\ str # ""
            /\ IsDigit(At(str, 1))
            /\ DigitsValue(str, 0) \in 1..5

\* C3 as stated: valid=true with no errors exactly when code is a non-blank
\* string, language is in the list ignoring case, level is one of
\* basic/moderate/complex as written, and hintLevel is absent or an integer in
\* 1..5; and valid equals (errors is empty) in every result.
C3_ValidExactlyWhen ==
  VCalled =>
    /\ (~vResult.threw /\ vResult.valid) <=>
         /\ C3_CodeOk(Get(vBody, "code"))
         /\ C3_LanguageOk(Get(vBody, "language"))
         /\ C3_LevelExact(Get(vBody, "level"))
         /\ C3_HintInteger(Get(vBody, "hintLevel"))
    /\ ~vResult.threw => (vResult.valid <=> vResult.errors = <<>>)

\* C3 as amended: valid=true with no errors exactly when code is a non-blank
\* string, language is a string in the list ignoring case, level is a string
\* among basic/moderate/complex ignoring case, and hintLevel is absent or its
\* text starts with an integer in 1..5 (2.5, 5.9, "3" and "4x" are accepted);
\* valid equals (errors is empty) in every result.
C3_ValidWhenParses ==
  VCalled =>
    /\ (~vResult.threw /\ vResult.valid) <=>
         /\ C3_CodeOk(Get(vBody, "code"))
         /\ C3_LanguageOk(Get(vBody, "language"))
         /\ C3_LevelAnyCase(Get(vBody, "level"))
         /\ C3_HintParses(Get(vBody, "hintLevel"))
    /\ ~vResult.threw => (vResult.valid <=> vResult.errors = <<>>)

\* the request of the claim, {code:"x", language:"python", level:"basic",
\* hintLevel:3}, validated and found valid
C3_Witness ==
  /\ VCalled
  /\ vBody = MkObj([code |-> Str("x"), language |-> Str("python"),
                    level |-> Str("basic"), hintLevel |-> Num(30)])
  /\ vResult.valid
  /\ vResult.errors = <<>>

-----------------------------------------------------------------------------
(* The sanitizer on its own: sanitizeResponse on a parsed LLM output, then *)
(* on its own result                                                       *)

\* the most body lines of the Python function of a reply
MaxBodyLines == 6
\* the most short fenced examples of a reply
MaxBlocks == 2

RECURSIVE Repeat(_, _)
Repeat(str, k) == IF k = 0 THEN "" ELSE str \o Repeat(str, k - 1)

Intro == "Here is how to think about it.\n"
\* a three-line syntax example in a fenced block
ExampleBlock ==
  Fence \o "python\nfor x in xs:\n    total += x\nprint(total)\n" \o Fence \o "\n"
DefHeader == "def solve(nums):\n"
BodyLine == "    total = total + 1\n"
FillerText ==
  "let total = 0; for (let i = 0; i < a.length; i++) { total += a[i]; } if (total > 10) { total = total - 10; } else { total = total + 10; } let mean = total / a.length; console.log(mean); return mean; /* end of the body */ "
\* n characters of function body
Filler(n) == SubSeq(FillerText, 1, n)

\* signatures the patterns know, and one they do not
SolutionHeaders ==
  {"function average(a)", "public int average(int a)",
   "public static int average(int a)"}
FuncHeaders == SolutionHeaders \cup {"private int average(int a)"}

\* the Python function of a reply, fenced or not, with nLines body lines
DefPart(nLines, fenced) ==
  IF nLines = 0 THEN ""
  ELSE (IF fenced THEN Fence \o "python\n" ELSE "")
       \o DefHeader \o Repeat(BodyLine, nLines)
       \o (IF fenced THEN Fence \o "\n" ELSE "")

\* the fenced brace function of a reply, with bodyLen characters between braces
FuncPart(header, bodyLen) ==
  IF header = "" THEN ""
  ELSE Fence \o "js\n" \o header \o " {" \o Filler(bodyLen) \o "}\n" \o Fence
       \o "\n"

\* the reply text a parameter record stands for
BuildReply(p) ==
  Intro \o Repeat(ExampleBlock, p.nBlocks) \o DefPart(p.nLines, p.fenced)
  \o FuncPart(p.header, p.bodyLen)
  \o (IF p.openFence THEN Fence \o "python\nx = 1\n" ELSE "")

\* that text with each of its fenced blocks replaced by the placeholder
BuildRedacted(p) ==
  Intro \o Repeat(Placeholder \o "\n", p.nBlocks)
  \o (IF p.nLines = 0 THEN ""
      ELSE IF p.fenced THEN Placeholder \o "\n"
      ELSE DefPart(p.nLines, FALSE))
  \o (IF p.header = "" THEN "" ELSE Placeholder \o "\n")
  \o (IF p.openFence THEN Fence \o "python\nx = 1\n" ELSE "")

BuiltParams ==
  {[built |-> TRUE, nLines |-> n, fenced |-> f, nBlocks |-> b, header |-> h,
    bodyLen |-> l, openFence |-> o] :
     n \in 0..MaxBodyLines, f \in BOOLEAN, b \in 0..MaxBlocks,
     h \in FuncHeaders \cup {""}, l \in {MinBraceBody - 1, MinBraceBody},
     o \in BOOLEAN}

RawParams ==
  [built |-> FALSE, nLines |-> 0, fenced |-> FALSE, nBlocks |-> 0,
   header |-> "", bodyLen |-> 0, openFence |-> FALSE]

\* the object an LLM answers with, holding the given reply
LLMObject(reply) ==
  [isObject |-> TRUE,
   fields |-> MkObj([reply |-> reply, conceptsTaught |-> Arr(<<"loops">>),
                     suggestedNextConcept |-> Str("recursion")])]

\* JSON.parse output that is null, or holds no reply, or a reply that is no text
RawResponses ==
  {[isObject |-> FALSE, fields |-> EmptyObject],
   [isObject |-> TRUE, fields |-> EmptyObject],
   [isObject |-> TRUE,
    fields |-> [explanation |-> Str("Check the loop bounds."),
                hint |-> Str("Look at the last index.")]],
   LLMObject(Undef), LLMObject(Null), LLMObject(Str("")), LLMObject(Num(50)),
   LLMObject(Bool(TRUE)), LLMObject(Obj),
   LLMObject(Arr(<<"step one", "step two">>)),
   LLMObject(Arr(<<DefHeader \o Repeat(BodyLine, MinBodyLines)>>))}

NotCalled == [threw |-> FALSE, value |-> [notCalled |-> Undef]]

SInit ==
  /\ \/ sParams \in BuiltParams /\ sArg = LLMObject(Str(BuildReply(sParams)))
     \/ sParams = RawParams /\ sArg \in RawResponses
  /\ sOnce = NotCalled
  /\ sTwice = NotCalled
  /\ OnlyS

\* result = sanitizeResponse(parsed)
SanitizeOnce ==
  /\ sOnce = NotCalled
  /\ sOnce' = sanitizeResponse(sArg)
  /\ sArg' = ResponseAfterCall(sArg)
  /\ UNCHANGED <<sParams, sTwice, notS>>

\* sanitizeResponse(sanitizeResponse(parsed)): the outer call runs on the object
\* the inner call returned, and an exception of the inner call is the outcome
\* of the whole expression
SanitizeTwice ==
  /\ sOnce # NotCalled
  /\ sTwice = NotCalled
  /\ sTwice' = IF sOnce.threw THEN sOnce
               ELSE sanitizeResponse([isObject |-> TRUE, fields |-> sOnce.value])
  /\ UNCHANGED <<sParams, sArg, sOnce, notS>>

SNext == SanitizeOnce \/ SanitizeTwice

SpecSanitize == SInit /\ [][SNext]_vars

SCalled == sOnce # NotCalled
STwiceCalled == sTwice # NotCalled

\* what the first call changed
SChanged == sOnce.value # Spread(sArg)

\* C8: sanitizeResponse(sanitizeResponse(x)) has the outcome of
\* sanitizeResponse(x) for every parsed LLM output x: the same object, reply
\* and the other fields alike, also when the reply holds several fenced
\* blocks, an unpaired fence, or a solution outside any fence.
C8_Idempotent == STwiceCalled => sTwice = sOnce

\* the second call ran on a reply that the first call had redacted, holding
\* two fenced blocks, an unpaired fence and a solution outside any fence
C8_Witness ==
  /\ STwiceCalled
  /\ sParams.built /\ sParams.nBlocks = 2 /\ sParams.openFence
  /\ ~sParams.fenced /\ sParams.nLines >= 5
  /\ ~sOnce.threw /\ SChanged
  /\ sTwice = sOnce

\* the reply of a parameter record holds a complete solution: a Python
\* function of 5 or more body lines, or a function or public method with a
\* brace body of 200 or more characters
C9_HoldsSolution(p) ==
  \/ p.nLines >= 5
  \/ p.header \in SolutionHeaders /\ p.bodyLen >= 200

C10_NeverThrows == SCalled => ~sOnce.threw

-----------------------------------------------------------------------------
(* routes/analyze.js and services/aiService.js: one POST /analyze request  *)

\* hintLevel || 1
HintOrOne(hintLevel) == IF Truthy(hintLevel) THEN hintLevel ELSE Num(10)

simpleGreetings == {"hi", "hello", "hey", "hi!", "hello!", "hey!"}

\* !simpleGreetings.includes(question.toLowerCase().trim())
isCodeRelatedQuestion(question) == trim(toLowerCase(question)) \notin simpleGreetings

\* the general answer to a greeting (the emoji and the bullet characters of the
\* source text are written in ASCII here)
GreetingObject ==
  [mode |-> Str("general"),
   reply |-> Str("Hey! I'm your coding mentor. What are you working on today?\n\n* Paste code and I'll explain it\n* Ask for help with a problem\n* Request hints when stuck\n\nWhat would you like to learn?"),
   explanation |-> Str(""), analogy |-> Str(""), hint |-> Str(""),
   syntax |-> Str(""), nextStep |-> Str("")]

\* buildGeneralResponse: /^(hi|hello|hey)!?$/i on the trimmed, lower-cased
\* question; null for every other question
buildGeneralResponse(question) ==
  IF toLowerCase(trim(question)) \in simpleGreetings
    THEN [isNull |-> FALSE, value |-> GreetingObject]
    ELSE [isNull |-> TRUE, value |-> EmptyObject]

\* buildAnalysisPrompt throws: userQuestion.includes is called on a truthy value
\* that is neither a string nor an array
buildAnalysisPromptThrows(userQuestion) ==
  Truthy(userQuestion) /\ userQuestion.t \notin {"string", "array"}

\* { ...aiResponse, hintLevel }
WithHintLevel(aiResponse, hintLevel) ==
  [k \in DOMAIN aiResponse \cup {"hintLevel"} |->
     IF k = "hintLevel" THEN hintLevel ELSE aiResponse[k]]

Answer(status, body) == [status |-> status, body |-> body]

\* res.status(400).json({ error: 'Invalid request', details: validation.errors })
InvalidResponse(errors) ==
  Answer(400, [error |-> Str("Invalid request"), details |-> Arr(errors)])

\* the answer of the catch block of the route
ServerError ==
  Answer(500,
    [error |-> Str("Analysis failed - trying fallback"),
     explanation |-> Str("There was an issue with the AI analysis. But don't worry - I can still help!"),
     analogy |-> Str("Like when your phone's connection is slow, but you can still use some features."),
     hint |-> Str("Try asking a simpler question or analyzing shorter code.")])

\* a learning state as the client sends it
SampleLearningState ==
  [strugglingConcepts |-> Arr(<<"loops">>), masteredConcepts |-> Arr(<<"variables">>),
   hintsGivenThisSession |-> Num(40), sameErrorRepeated |-> Bool(TRUE),
   previousExplanations |-> Arr(<<"A loop header ends with a colon.">>)]

\* the learningState of a request body, the empty object when it holds none
LearningStateOf(body) ==
  IF Get(body, "learningState").t = "object" THEN SampleLearningState
  ELSE EmptyObject

\* the answer of a valid request that getFallbackAnalysis decides: res.json of
\* { ...fallback, hintLevel }, or the catch block when the fallback throws
FallbackAnswer(body, errors) ==
  LET hintLevel == HintOrOne(Get(body, "hintLevel"))
      fallback == getFallbackAnalysis(normalizeLanguage(body["language"].s),
                                      body["level"].s, hintLevel, errors,
                                      Get(body, "userQuestion"),
                                      LearningStateOf(body))
  IN  IF fallback.threw THEN ServerError
      ELSE Answer(200, WithHintLevel(fallback.value, hintLevel))

\* the code of the README's test request
MissingColonCode == "for i in range(10)\n  print(i)"

RequestCodes == {Str("x"), Str(MissingColonCode), Str("pirnt(total)"), Str("  ")}
RequestLanguages ==
  {Str("python"), Str("Python"), Str("java"), Str("ruby"), Num(50)}
RequestLevels == {Str("basic"), Str("BASIC"), Str("complex"), Str("expert")}
RequestHintLevels == {Undef, Num(10), Num(20), Num(25), Str("3"), Num(60)}
RequestQuestions ==
  {Undef, Str(""), Str("hi"), Str(" Hello! "), Str("give me a hint"), Num(50),
   Arr(<<"help">>)}
RequestLearningStates == {Undef, Obj}

RequestBodies ==
  {MkObj([code |-> c, language |-> l, level |-> v, hintLevel |-> h,
          userQuestion |-> q, learningState |-> s]) :
     c \in RequestCodes, l \in RequestLanguages, v \in RequestLevels,
     h \in RequestHintLevels, q \in RequestQuestions,
     s \in RequestLearningStates}

\* how the call of the LLM can end: a rejection, an answer without choices or
\* whose content is no JSON, or an answer whose content parses
LLMOutcomes ==
  {[kind |-> "rejected", parsed |-> LLMObject(Undef)],
   [kind |-> "malformed", parsed |-> LLMObject(Undef)]}
  \cup
  {[kind |-> "parsed", parsed |-> r] :
     r \in {[isObject |-> FALSE, fields |-> EmptyObject],
            LLMObject(Str("What does every for header end with?")),
            LLMObject(Str(Intro \o ExampleBlock \o DefPart(MinBodyLines + 1, TRUE))),
            LLMObject(Arr(<<DefHeader \o Repeat(BodyLine, MinBodyLines)>>)),
            [isObject |-> TRUE,
             fields |-> [reply |-> Str("Check the loop header."),
                         hintLevel |-> Num(50)]]}}

Init ==
  /\ req \in RequestBodies
  /\ groqClient \in BOOLEAN
  /\ phase = "received"
  /\ detected = <<>>
  /\ llmCall = "none"
  /\ llmTimedOut = FALSE
  /\ timer5 = FALSE
  /\ timer10 = FALSE
  /\ responses = <<>>
  /\ nDetect = 0
  /\ nLLM = 0
  /\ nFallback = 0
  /\ OnlyR

\* the handler up to its first wait: validation, then analyzeCode up to the
\* call of the LLM, or through the fallback to the response
HandleRequest ==
  /\ phase = "received"
  /\ LET validation == validateAnalyzeRequest(req)
         userQuestion == Get(req, "userQuestion")
     IN  IF validation.threw \/ ~validation.valid
           THEN /\ responses' = <<IF validation.threw THEN ServerError
                                  ELSE InvalidResponse(validation.errors)>>
                /\ phase' = "done"
                /\ UNCHANGED <<detected, llmCall, timer5, timer10, nDetect,
                               nLLM, nFallback>>
         ELSE LET codeText == trim(req["code"].s)
                  hasCode == Len(codeText) > 0
                  hasQuestion == userQuestion.t = "string"
                                 /\ Len(trim(userQuestion.s)) > 0
                  errors == IF hasCode
                              THEN detectErrors(codeText,
                                     normalizeLanguage(req["language"].s))
                              ELSE <<>>
              IN  /\ timer10' = TRUE
                  /\ IF hasQuestion /\ ~isCodeRelatedQuestion(userQuestion.s)
                        /\ ~buildGeneralResponse(userQuestion.s).isNull
                       THEN /\ responses' =
                                 <<Answer(200, buildGeneralResponse(userQuestion.s).value)>>
                            /\ phase' = "done"
                            /\ UNCHANGED <<detected, llmCall, timer5, nDetect,
                                           nLLM, nFallback>>
                     ELSE /\ detected' = errors
                          /\ nDetect' = nDetect + 1
                          /\ IF groqClient /\ ~buildAnalysisPromptThrows(userQuestion)
                               THEN /\ llmCall' = "pending"
                                    /\ nLLM' = nLLM + 1
                                    /\ timer5' = TRUE
                                    /\ phase' = "awaitingLLM"
                                    /\ UNCHANGED <<responses, nFallback>>
                               ELSE /\ nFallback' = nFallback + 1
                                    /\ responses' = <<FallbackAnswer(req, errors)>>
                                    /\ phase' = "done"
                                    /\ UNCHANGED <<llmCall, timer5, nLLM>>
  /\ UNCHANGED <<req, groqClient, llmTimedOut, notR>>

\* a variant in which a settled call is handled whether or not the race has
\* been decided
RaceOpen_Always(at) == TRUE

\* await Promise.race([apiPromise, timeoutPromise]): the first promise to
\* settle decides the race, which is open while getAIAnalysis awaits it
RaceOpen(at) == at = "awaitingLLM"

\* the catch block of getAIAnalysis, then analyzeCode and the route to the end
FallBack ==
  /\ nFallback' = nFallback + 1
  /\ responses' = Append(responses, FallbackAnswer(req, detected))
  /\ phase' = "done"

\* the call of the LLM ends; after the timeout has won the race its end is
\* ignored
LLMSettles(outcome) ==
  /\ llmCall = "pending"
  /\ llmCall' = IF outcome.kind = "rejected" THEN "rejected" ELSE "resolved"
  /\ IF RaceOpen(phase)
       THEN IF outcome.kind = "parsed" /\ ~sanitizeResponse(outcome.parsed).threw
              THEN /\ responses' =
                        Append(responses,
                               Answer(200,
                                 WithHintLevel(sanitizeResponse(outcome.parsed).value,
                                               HintOrOne(Get(req, "hintLevel")))))
                   /\ phase' = "done"
                   /\ UNCHANGED nFallback
              ELSE FallBack
       ELSE UNCHANGED <<responses, phase, nFallback>>
  /\ UNCHANGED <<req, groqClient, detected, llmTimedOut, timer5, timer10,
                 nDetect, nLLM, notR>>

\* the 5 second timeout of getAIAnalysis fires: it rejects the race when the
\* call is still awaited
Timer5Fires ==
  /\ timer5
  /\ timer5' = FALSE
  /\ IF phase = "awaitingLLM"
       THEN FallBack /\ llmTimedOut' = TRUE
       ELSE UNCHANGED <<responses, phase, nFallback, llmTimedOut>>
  /\ UNCHANGED <<req, groqClient, detected, llmCall, timer10, nDetect, nLLM,
                 notR>>

\* the 10 second timeout of the route fires, after the 5 second one which was
\* armed before it: it rejects the race when the analysis is still awaited
Timer10Fires ==
  /\ timer10
  /\ ~timer5
  /\ timer10' = FALSE
  /\ IF phase # "done"
       THEN responses' = Append(responses, ServerError) /\ phase' = "done"
       ELSE UNCHANGED <<responses, phase>>
  /\ UNCHANGED <<req, groqClient, detected, llmCall, llmTimedOut, timer5,
                 nDetect, nLLM, nFallback, notR>>

Next ==
  \/ HandleRequest
  \/ \E outcome \in LLMOutcomes : LLMSettles(outcome)
  \/ Timer5Fires
  \/ Timer10Fires

Spec == Init /\ [][Next]_vars

Answered == phase # "received" /\ phase # "idle"

\* validation of the request body failed: the validator returned no valid=true
ValidationFailed ==
  validateAnalyzeRequest(req).threw \/ ~validateAnalyzeRequest(req).valid

\* the one response of an answered request is HTTP 400 with the error list
Gets400(errors) ==
  responses =
    <<[status |-> 400,
       body |-> [error |-> Str("Invalid request"), details |-> Arr(errors)]]>>

NoAnalysisWork == nDetect = 0 /\ nLLM = 0 /\ nFallback = 0 /\ llmCall = "none"

\* C4: a request whose validation fails is answered with HTTP 400
\* {error: "Invalid request", details: the validator's error list}, and no
\* error detection, no LLM call and no fallback generation runs for it.
C4_FailedValidationGets400 ==
  (Answered /\ ValidationFailed) =>
    Gets400(validateAnalyzeRequest(req).errors) /\ NoAnalysisWork

\* the part of C4 that the code keeps: when the validator returns valid=false
\* the answer is the 400 response, and whenever validation fails no analysis
\* work is done
InvalidResultGets400 ==
  /\ (Answered /\ ValidationFailed) => NoAnalysisWork
  /\ (Answered /\ ~validateAnalyzeRequest(req).threw
        /\ ~validateAnalyzeRequest(req).valid) =>
       Gets400(validateAnalyzeRequest(req).errors)

\* the LLM call of the request failed or lost the race against its timeout
LLMFailed == llmCall = "rejected" \/ llmTimedOut

\* C5: when the LLM call of a request fails or exceeds its timeout, the
\* request is answered once, with HTTP 200 and the fallback object built from
\* the request's detected errors, and the LLM was called exactly once.
C5_FailedCallAnswered200 ==
  (phase = "done" /\ LLMFailed) =>
    /\ Len(responses) = 1
    /\ responses[1].status = 200
    /\ responses[1] = FallbackAnswer(req, detected)
    /\ nLLM = 1

\* C6: every HTTP 200 response of a request holds a hintLevel field, equal to
\* the hintLevel the request supplied.
C6_HintLevelEchoed ==
  Answered =>
    \A i \in DOMAIN responses :
      responses[i].status = 200 =>
        /\ "hintLevel" \in DOMAIN responses[i].body
        /\ "hintLevel" \in DOMAIN req =>
             responses[i].body["hintLevel"] = req["hintLevel"]

\* the README's request: the code without the colon, python, basic, hintLevel
\* 1, no question
MissingColonRequest ==
  /\ Answered
  /\ ~groqClient
  /\ req["code"] = Str(MissingColonCode)
  /\ req["language"] = Str("python")
  /\ req["level"] = Str("basic")
  /\ Get(req, "hintLevel") = Num(10)
  /\ "userQuestion" \notin DOMAIN req

\* C7: without an API key, the request with code "for i in range(10)\n
\* print(i)", python, basic, hintLevel 1 and no question has a syntax error for
\* the missing colon as its first detected error, and is answered with HTTP 200
\* whose hint is the first entry of the syntax hint progression.
C7_MissingColonFirstHint ==
  MissingColonRequest =>
    /\ Len(detected) >= 1
    /\ detected[1].type = "syntax"
    /\ Contains(detected[1].description, "colon")
    /\ detected[1].line = 1
    /\ Len(responses) = 1
    /\ responses[1].status = 200
    /\ responses[1].body["hint"] = Str(hintProgressions("syntax")[1])
    /\ responses[1].body["hint"] = Str("Look carefully at the end of your lines...")
    /\ responses[1].body["hintLevel"] = Num(10)

\* that request has been answered, with the colon error found on line 1
C7_Witness ==
  /\ MissingColonRequest
  /\ phase = "done"
  /\ nDetect = 1 /\ nFallback = 1 /\ nLLM = 0
  /\ detected[1].type = "syntax" /\ detected[1].line = 1
  /\ responses[1].body["conceptsTaught"] = Arr(<<"syntax">>)

-----------------------------------------------------------------------------
(* utils/errorDetector.js: checkBracketBalance on its own                  *)

\* the longest code text given to checkBracketBalance
MaxCodeLen == 5

\* the characters of those texts: the brackets, the quotes and the backslash
CodeChars == {"(", ")", "[", "]", "{", "}", "\"", "'", "\\"}

RECURSIVE TextOf(_)
\* the text made of the given characters
TextOf(chars) == IF chars = <<>> THEN "" ELSE Head(chars) \o TextOf(Tail(chars))

NotRun == [notRun |-> TRUE]

BInit ==
  /\ \E n \in 0..MaxCodeLen : \E chars \in [1..n -> CodeChars] :
       pCall = [fn |-> "checkBracketBalance", code |-> TextOf(chars)]
  /\ pResult = NotRun
  /\ OnlyP

\* bracketBalance = checkBracketBalance(code)
CheckBrackets ==
  /\ pCall.fn = "checkBracketBalance"
  /\ pResult = NotRun
  /\ pResult' = checkBracketBalance(pCall.code)
  /\ UNCHANGED <<pCall, notP>>

BNext == CheckBrackets

SpecBrackets == BInit /\ [][BNext]_vars

BracketsChecked == pCall.fn = "checkBracketBalance" /\ pResult # NotRun

RECURSIVE C11_Backslashes(_, _, _)
\* the number of backslashes that end at position j and start after position i
C11_Backslashes(code, i, j) ==
  IF j > i /\ At(code, j) = "\\" THEN 1 + C11_Backslashes(code, i, j - 1) ELSE 0

\* the position of the quote that closes the literal opened at position i, a
\* quote after a backslash escape not closing it; 0 when the literal is not
\* closed
C11_LiteralEnd(code, i) ==
  LET ends == {j \in (i + 1)..Len(code) :
                 /\ At(code, j) = At(code, i)
                 /\ C11_Backslashes(code, i, j - 1) % 2 = 0}
  IN  IF ends = {} THEN 0 ELSE CHOOSE j \in ends : \A k \in ends : j <= k

RECURSIVE C11_Outside(_, _)
\* the brackets of the code that stand outside its string literals, from
\* position i on
C11_Outside(code, i) ==
  IF i > Len(code) THEN ""
  ELSE IF At(code, i) \in {"\"", "'"} /\ C11_LiteralEnd(code, i) # 0
    THEN C11_Outside(code, C11_LiteralEnd(code, i) + 1)
  ELSE (IF At(code, i) \in Openers \cup Closers THEN At(code, i) ELSE "")
       \o C11_Outside(code, i + 1)

RECURSIVE C11_Reduced(_)
\* a text of brackets with every adjacent matching pair taken out, again and
\* again
C11_Reduced(text) ==
  LET pairs == {i \in 1..(Len(text) - 1) :
                  At(text, i) \in Openers /\ At(text, i + 1) = Pair(At(text, i))}
  IN  IF pairs = {} THEN text
      ELSE LET i == CHOOSE i \in pairs : TRUE
           IN  C11_Reduced(SubSeq(text, 1, i - 1) \o SubSeq(text, i + 2, Len(text)))

\* the brackets outside string literals are balanced and well nested
C11_WellNested(code) == C11_Reduced(C11_Outside(code, 1)) = ""

\* the code without its character at position p
C11_Without(code, p) == SubSeq(code, 1, p - 1) \o SubSeq(code, p + 1, Len(code))

\* the positions of a bracket whose removal leaves balanced code
C11_Unmatched(code) ==
  {p \in 1..Len(code) :
     At(code, p) \in Openers \cup Closers /\ C11_WellNested(C11_Without(code, p))}

\* the message names the bracket: the bracket itself, or for an opener the
\* closer it waits for
C11_Names(message, c) ==
  Contains(message, c) \/ (c \in Openers /\ Contains(message, Pair(c)))

C11_Holds(code, result) ==
  /\ C11_WellNested(code) => result.balanced
  /\ (~C11_WellNested(code) /\ C11_Unmatched(code) # {}) =>
       /\ ~result.balanced
       /\ result.type = "bracket"
       /\ \E p \in C11_Unmatched(code) : C11_Names(result.message, At(code, p))

\* C11: checkBracketBalance reports balanced=true for every code whose brackets
\* outside string literals are balanced and well nested, and balanced=false
\* with a message naming the offending bracket for every code that is one
\* unmatched opener or closer away from such a code.
C11_BalanceReported == BracketsChecked => C11_Holds(pCall.code, pResult)

\* the part of C11 that the code keeps: the same statement for every code
\* that holds no backslash
BalanceReportedWithoutEscapes ==
  (BracketsChecked /\ ~Contains(pCall.code, "\\")) =>
    C11_Holds(pCall.code, pResult)

-----------------------------------------------------------------------------
(* services/aiService.js: getHintForError and getGenericHint on their own  *)

\* the highest hintLevel the two functions are called with
MaxHintArg == 100

\* error types: the four with a hint progression, one the detector reports
\* without a progression, and one no detector reports
HintErrorTypes == {"syntax", "logic", "typo", "structure", "style", "runtime"}

HInit ==
  /\ \E h \in 0..MaxHintArg :
       \/ \E type \in HintErrorTypes :
            pCall = [fn |-> "getHintForError", type |-> type, hintLevel |-> h]
       \/ pCall = [fn |-> "getGenericHint", type |-> "", hintLevel |-> h]
  /\ pResult = NotRun
  /\ OnlyP

\* hint: getHintForError(mainError, hintLevel, level)
CallGetHintForError ==
  /\ pCall.fn = "getHintForError"
  /\ pResult = NotRun
  /\ pResult' = getHintForError(DetectedError(pCall.type, "", 0, "warning"),
                                Num(10 * pCall.hintLevel))
  /\ UNCHANGED <<pCall, notP>>

\* hint: getGenericHint(hintLevel, level)
CallGetGenericHint ==
  /\ pCall.fn = "getGenericHint"
  /\ pResult = NotRun
  /\ pResult' = getGenericHint(Num(10 * pCall.hintLevel))
  /\ UNCHANGED <<pCall, notP>>

HNext == CallGetHintForError \/ CallGetGenericHint

SpecHints == HInit /\ [][HNext]_vars

HintReturned == pCall.fn \in {"getHintForError", "getGenericHint"} /\ pResult # NotRun

\* the fifth, most direct hint of the progression a call selects
C12_LastHint(call) ==
  CASE call.fn = "getGenericHint" ->
         "Break the problem into smaller steps. Which step isn't working correctly?"
    [] call.type = "syntax" ->
         "Look for missing semicolons, colons, or brackets at the end of statements."
    [] call.type = "typo" ->
         "There's a misspelling - check words that look similar to common keywords."
    [] call.type = "structure" ->
         "You may be missing the main function or class structure."
    [] OTHER ->
         "You might be using a single equals when you need a double equals, or vice versa."

\* C12: getHintForError and getGenericHint return, without throwing, for every
\* integer hintLevel in 0..100 and every error type, and for hintLevel >= 5 the
\* value is the fifth, last entry of the selected progression (the logic
\* progression for a type that has none).
C12_ClampedToLast ==
  HintReturned =>
    /\ pResult.t \in {"string", "undefined"}
    /\ pCall.hintLevel >= 5 => pResult = Str(C12_LastHint(pCall))
    /\ pCall.hintLevel \in 1..4 =>
         pResult.t = "string" /\ pResult # Str(C12_LastHint(pCall))

\* getHintForError returned the last typo hint for hintLevel 100
C12_Witness ==
  /\ HintReturned
  /\ pCall.fn = "getHintForError" /\ pCall.type = "typo" /\ pCall.hintLevel = 100
  /\ pResult = Str("There's a misspelling - check words that look similar to common keywords.")

-----------------------------------------------------------------------------
(* frontend services/progress.js: the learning state kept in localStorage  *)
(* (its sessionStartTime, a timestamp, is left out)                        *)

\* previousExplanations keeps this many entries
ExplanationsKept == 5
\* errorHistory keeps this many entries
ErrorsKept == 10
\* explanations of a struggling concept after which it counts as mastered
ExposuresToMaster == 3
\* characters of a reply kept in its summary
SummaryLength == 100
\* hints in one session above which the student counts as struggling
HintsBeforeStruggling == 5

\* localStorage.getItem returns null
NoItem == [noItem |-> TRUE]
\* null, for lastErrorType and for an errorType that is not given
NoType == "null"

\* the default learning state structure
DefaultLearningState ==
  [strugglingConcepts |-> <<>>, masteredConcepts |-> <<>>,
   hintsGivenThisSession |-> 0, sameErrorRepeated |-> FALSE,
   previousExplanations |-> <<>>, lastErrorType |-> NoType,
   currentUnderstanding |-> "learning", errorHistory |-> <<>>]

\* getLearningState: JSON.parse of the stored item, or the default structure
getLearningState(stored) == IF stored = NoItem THEN DefaultLearningState ELSE stored

\* array.includes(x)
SeqIncludes(array, x) == \E i \in DOMAIN array : array[i] = x

\* array.indexOf(x) counted from 1, 0 when x is not in the array
SeqIndexOf(array, x) ==
  IF SeqIncludes(array, x)
    THEN CHOOSE i \in DOMAIN array :
           array[i] = x /\ \A j \in DOMAIN array : array[j] = x => i <= j
    ELSE 0

\* array.splice(i, 1), i counted from 1
Splice(array, i) == SubSeq(array, 1, i - 1) \o SubSeq(array, i + 1, Len(array))

\* a variant that drops the new entry instead of the oldest one
PushKeeping_DropsNewest(array, x, kept) ==
  IF Len(array) + 1 > kept THEN array ELSE Append(array, x)

\* array.push(x), then array.shift() when the array is longer than kept
PushKeeping(array, x, kept) ==
  IF Len(array) + 1 > kept THEN Tail(Append(array, x)) ELSE Append(array, x)

\* updateLearningState: track hint requests
TrackHint(state, wasHintRequest) ==
  IF wasHintRequest
    THEN [state EXCEPT !.hintsGivenThisSession = @ + 1]
    ELSE state

\* updateLearningState: track error patterns
TrackError(state, errorType) ==
  IF errorType = NoType THEN state
  ELSE LET repeated == state.lastErrorType = errorType
       IN  [state EXCEPT
              !.errorHistory = PushKeeping(@, errorType, ErrorsKept),
              !.sameErrorRepeated = repeated,
              !.strugglingConcepts =
                 IF repeated /\ ~SeqIncludes(@, errorType)
                   THEN Append(@, errorType) ELSE @,
              !.lastErrorType = errorType]

\* the number of previousExplanations that hold the concept, ignoring case
ExplanationCount(state, concept) ==
  Cardinality({i \in DOMAIN state.previousExplanations :
                 Contains(toLowerCase(state.previousExplanations[i]),
                          toLowerCase(concept))})

\* updateLearningState: one concept of response.conceptsTaught
TrackConcept(state, concept) ==
  LET strugglingIndex == SeqIndexOf(state.strugglingConcepts, concept)
  IN  IF strugglingIndex > 0 /\ ExplanationCount(state, concept) >= ExposuresToMaster
        THEN [state EXCEPT
                !.strugglingConcepts = Splice(@, strugglingIndex),
                !.masteredConcepts =
                   IF SeqIncludes(@, concept) THEN @ ELSE Append(@, concept)]
        ELSE state

RECURSIVE TrackConcepts(_, _)
\* updateLearningState: response.conceptsTaught.forEach
TrackConcepts(state, concepts) ==
  IF concepts = <<>> THEN state
  ELSE TrackConcepts(TrackConcept(state, Head(concepts)), Tail(concepts))

\* response.reply.substring(0, 100) + '...'
Summary(reply) ==
  SubSeq(reply, 1, Min(Len(reply), SummaryLength)) \o "..."

\* updateLearningState: store the summary of the explanation
StoreSummary(state, reply) ==
  IF reply = "" THEN state
  ELSE [state EXCEPT
          !.previousExplanations = PushKeeping(@, Summary(reply), ExplanationsKept)]

\* updateLearningState: update the understanding level
UpdateUnderstanding(state) ==
  [state EXCEPT !.currentUnderstanding =
     IF state.hintsGivenThisSession > HintsBeforeStruggling \/ state.sameErrorRepeated
       THEN "struggling"
     ELSE IF Len(state.masteredConcepts) > Len(state.strugglingConcepts)
       THEN "confident"
     ELSE "learning"]

\* a variant that stores the summary of the reply before it tracks the
\* concepts taught
updateLearningState_SummaryFirst(stored, response, errorType, wasHintRequest) ==
  LET hinted == TrackHint(getLearningState(stored), wasHintRequest)
      tracked == TrackError(hinted, errorType)
      summed == IF response.isNull THEN tracked
                ELSE StoreSummary(tracked, response.reply)
      taught == IF response.isNull THEN summed
                ELSE TrackConcepts(summed, response.conceptsTaught)
  IN  UpdateUnderstanding(taught)

\* updateLearningState(response, errorType, wasHintRequest) on the stored item:
\* the state it saves and returns; a response is [isNull, reply,
\* conceptsTaught], reply "" standing for no reply
updateLearningState(stored, response, errorType, wasHintRequest) ==
  LET hinted == TrackHint(getLearningState(stored), wasHintRequest)
      tracked == TrackError(hinted, errorType)
      taught == IF response.isNull THEN tracked
                ELSE TrackConcepts(tracked, response.conceptsTaught)
      summed == IF response.isNull THEN taught
                ELSE StoreSummary(taught, response.reply)
  IN  UpdateUnderstanding(summed)

\* a variant that also forgets the mastered concepts
resetSessionState_Everything(stored) == DefaultLearningState

\* a variant that keeps the error history of the session
resetSessionState_KeepsErrors(stored) ==
  [getLearningState(stored) EXCEPT
     !.hintsGivenThisSession = 0, !.sameErrorRepeated = FALSE,
     !.previousExplanations = <<>>, !.lastErrorType = NoType]

\* resetSessionState() on the stored item: the state it saves and returns
resetSessionState(stored) ==
  [getLearningState(stored) EXCEPT
     !.hintsGivenThisSession = 0, !.sameErrorRepeated = FALSE,
     !.previousExplanations = <<>>, !.lastErrorType = NoType,
     !.errorHistory = <<>>]

\* markConceptMastered(concept) on the stored item
markConceptMastered(stored, concept) ==
  LET state == getLearningState(stored)
      mastered == [state EXCEPT !.masteredConcepts =
                     IF SeqIncludes(@, concept) THEN @ ELSE Append(@, concept)]
      index == SeqIndexOf(mastered.strugglingConcepts, concept)
  IN  IF index > 0
        THEN [mastered EXCEPT !.strugglingConcepts = Splice(@, index)]
        ELSE mastered

-----------------------------------------------------------------------------
(* The learning state under calls of the three functions                   *)

\* replies the tutor gives in one run
MaxReplies == 7
\* hint requests in one session
MaxHintRequests == 1
\* errors reported in one session
MaxErrors == 11

\* a call on the learning state, with the arguments the lists depend on
LearningCall(fn, errorType, reply) == [fn |-> fn, errorType |-> errorType, reply |-> reply]

\* the k-th reply of the tutor; the odd ones are longer than their summary
ReplyText(k) ==
  "Reply " \o ToString(k) \o ": check the syntax."
  \o ( IF k % 2 = 1
         THEN " ----------------------------------------"
              \o "----------------------------------------"
         ELSE "" )

\* what the application supplies in one run: either errors of two types and
\* responses without a reply, or errors of one type, replies and hint requests
LearningRuns ==
  { [types |-> {"syntax", "logic"}, replies |-> FALSE, hints |-> FALSE],
    [types |-> {"syntax"}, replies |-> TRUE, hints |-> TRUE] }

\* the responses passed to updateLearningState
LearningResponses ==
  { [isNull |-> TRUE, reply |-> "", conceptsTaught |-> <<>>] } \cup
  ( IF lsInputs.replies
      THEN { [isNull |-> FALSE, reply |-> ReplyText(nReplies + 1),
              conceptsTaught |-> <<"syntax">>] }
      ELSE { [isNull |-> FALSE, reply |-> "",
              conceptsTaught |-> <<"logic", "syntax">>] } )

\* the concepts the student can confirm
MarkedConcepts == {"loops", "logic"}

LInit ==
  /\ localStorage = NoItem
  /\ lsInputs \in LearningRuns
  /\ lsCall = LearningCall("none", NoType, "")
  /\ nReplies = 0
  /\ nErrors = 0
  /\ OnlyL

UpdateLearningState ==
  \E response \in LearningResponses, errorType \in lsInputs.types \cup {NoType},
     wasHintRequest \in BOOLEAN :
    /\ wasHintRequest =>
         /\ lsInputs.hints
         /\ getLearningState(localStorage).hintsGivenThisSession < MaxHintRequests
    /\ response.reply # "" => nReplies < MaxReplies
    /\ errorType # NoType => nErrors < MaxErrors
    /\ localStorage' = updateLearningState(localStorage, response, errorType, wasHintRequest)
    /\ nReplies' = IF response.reply # "" THEN nReplies + 1 ELSE nReplies
    /\ nErrors' = IF errorType # NoType THEN nErrors + 1 ELSE nErrors
    /\ lsCall' = LearningCall("updateLearningState", errorType, response.reply)
    /\ UNCHANGED <<lsInputs, notL>>

ResetSessionState ==
  /\ localStorage' = resetSessionState(localStorage)
  /\ nErrors' = 0
  /\ lsCall' = LearningCall("resetSessionState", NoType, "")
  /\ UNCHANGED <<lsInputs, nReplies, notL>>

MarkConceptMastered ==
  \E concept \in MarkedConcepts :
    /\ localStorage' = markConceptMastered(localStorage, concept)
    /\ lsCall' = LearningCall("markConceptMastered", NoType, "")
    /\ UNCHANGED <<lsInputs, nReplies, nErrors, notL>>

LNext == UpdateLearningState \/ ResetSessionState \/ MarkConceptMastered

SpecLearning == LInit /\ [][LNext]_vars

\* the learning state a call of getLearningState would return
LearningState == getLearningState(localStorage)

\* the last n entries of a list, in their order
LastEntries(entries, n) ==
  IF Len(entries) > n THEN SubSeq(entries, Len(entries) - n + 1, Len(entries)) ELSE entries

\* the two lists never exceed their sizes
ListsBounded ==
  /\ Len(LearningState.previousExplanations) <= 5
  /\ Len(LearningState.errorHistory) <= 10

\* a call of updateLearningState leaves each list as the most recent entries
\* of the old list followed by what the call brought
ListsKeepMostRecent ==
  lsCall'.fn = "updateLearningState" =>
    /\ LearningState'.errorHistory =
         IF lsCall'.errorType = NoType THEN LearningState.errorHistory
         ELSE LastEntries(Append(LearningState.errorHistory, lsCall'.errorType), 10)
    /\ LearningState'.previousExplanations =
         IF lsCall'.reply = "" THEN LearningState.previousExplanations
         ELSE LastEntries(Append(LearningState.previousExplanations,
                                 SubSeq(lsCall'.reply, 1, Min(100, Len(lsCall'.reply))) \o "..."),
                          5)

\* the other two calls add nothing to the lists
ListsOnlyGrowByUpdates ==
  lsCall'.fn # "updateLearningState" =>
    /\ LearningState'.errorHistory \in {LearningState.errorHistory, <<>>}
    /\ LearningState'.previousExplanations \in {LearningState.previousExplanations, <<>>}

\* C13: previousExplanations never holds more than 5 entries and errorHistory
\* never more than 10; a call that brings an entry to a full list evicts the
\* oldest one, so that each list holds the most recent entries in the order
\* of their arrival
C13_ListsHoldMostRecent ==
  []ListsBounded /\ [][ListsKeepMostRecent /\ ListsOnlyGrowByUpdates]_vars

\* the eleventh error of a session and the seventh reply have arrived: both
\* lists are full and have evicted their oldest entries
C13_Witness ==
  /\ lsCall.fn = "updateLearningState"
  /\ nErrors = 11 /\ Len(LearningState.errorHistory) = 10
  /\ nReplies = 7 /\ Len(LearningState.previousExplanations) = 5
  /\ LearningState.previousExplanations[1] = SubSeq(ReplyText(3), 1, 100) \o "..."
  /\ LearningState.previousExplanations[4] = ReplyText(6) \o "..."

\* every mastered concept of this state is a mastered concept of the next
MasteredKept ==
  \A i \in DOMAIN LearningState.masteredConcepts :
    \E j \in DOMAIN LearningState'.masteredConcepts :
      LearningState'.masteredConcepts[j] = LearningState.masteredConcepts[i]

\* C14: a concept that is in masteredConcepts stays there under every call of
\* updateLearningState, markConceptMastered and resetSessionState, the reset
\* at the start of the application included
C14_MasteredNeverRemoved == [][MasteredKept]_vars

\* a reset has run on a state with two mastered concepts, one confirmed by
\* the student and one promoted after three explanations, and kept both
C14_Witness ==
  /\ lsCall.fn = "resetSessionState"
  /\ LearningState.masteredConcepts = <<"loops", "syntax">>
  /\ nReplies >= 3

\* what a call of resetSessionState leaves behind
SessionReset ==
  lsCall'.fn = "resetSessionState" =>
    /\ LearningState'.hintsGivenThisSession = 0
    /\ LearningState'.sameErrorRepeated = FALSE
    /\ LearningState'.lastErrorType = NoType
    /\ LearningState'.previousExplanations = <<>>
    /\ LearningState'.errorHistory = <<>>
    /\ LearningState'.masteredConcepts = LearningState.masteredConcepts
    /\ LearningState'.strugglingConcepts = LearningState.strugglingConcepts

\* C15: resetSessionState sets hintsGivenThisSession to 0, sameErrorRepeated
\* to false and lastErrorType to null, empties previousExplanations and
\* errorHistory, and leaves masteredConcepts and strugglingConcepts as they
\* were
C15_ResetClearsSessionOnly == [][SessionReset]_vars

\* a reset has run after hints, errors and replies of a session, with a
\* mastered and a struggling concept on record
C15_Witness ==
  /\ lsCall.fn = "resetSessionState"
  /\ LearningState.masteredConcepts = <<"loops">>
  /\ LearningState.strugglingConcepts = <<"syntax">>
  /\ LearningState.currentUnderstanding = "struggling"
  /\ nReplies = 2

-----------------------------------------------------------------------------
(* The server under several requests: POST /analyze handlers that run      *)
(* between each other's waits                                              *)

\* requests the server receives in one run
MaxRequests == 2

\* the bodies of these requests
ServedBodies ==
  {MkObj([code |-> c, language |-> Str("python"), level |-> v, hintLevel |-> Undef,
          userQuestion |-> q, learningState |-> Undef]) :
     c \in {Str("pirnt(total)"), Str(MissingColonCode)},
     v \in {Str("basic"), Str("expert")},
     q \in {Undef, Str("hi")}}
  \cup
  {MkObj([code |-> Str("x"), language |-> Num(50), level |-> Str("basic"),
          hintLevel |-> Undef, userQuestion |-> Undef, learningState |-> Undef]),
   MkObj([code |-> Str("x"), language |-> Str("python"), level |-> Str("basic"),
          hintLevel |-> Undef, userQuestion |-> Arr(<<"help">>),
          learningState |-> Undef])}

\* a request that has not arrived; raised is the place where an exception
\* left the code of the request, failed tells that the call of the LLM failed,
\* after counts the requests answered before this one arrived
NoRequest ==
  [phase |-> "idle", body |-> EmptyObject, errors |-> <<>>, called |-> FALSE,
   raised |-> "none", failed |-> FALSE, after |-> 0,
   response |-> Answer(0, EmptyObject)]

\* the answer of the LLM in these runs
ServedLLMReply == LLMObject(Str("What does every for header end with?"))

\* a valid request that is no greeting holds code
HasCode(body) == Len(trim(body["code"].s)) > 0

\* the handler decides the request before analyzeCode detects errors: the
\* validation fails or the question is a greeting
DecidedEarly(body) ==
  LET validation == validateAnalyzeRequest(body)
      userQuestion == Get(body, "userQuestion")
  IN  \/ validation.threw \/ ~validation.valid
      \/ /\ userQuestion.t = "string" /\ Len(trim(userQuestion.s)) > 0
         /\ ~isCodeRelatedQuestion(userQuestion.s)
         /\ ~buildGeneralResponse(userQuestion.s).isNull

\* the answer of a request that is decided early
EarlyAnswer(body) ==
  LET validation == validateAnalyzeRequest(body)
  IN  IF validation.threw THEN ServerError
      ELSE IF ~validation.valid THEN InvalidResponse(validation.errors)
      ELSE Answer(200, buildGeneralResponse(Get(body, "userQuestion").s).value)

\* const detectedErrors = hasCode ? detectErrors(codeText, normalizedLang) : []
\* in a process whose earlier calls left the lastIndex values given
DetectedAfter(body, left) ==
  IF HasCode(body)
    THEN detectErrorsAfter(trim(body["code"].s),
                           normalizeLanguage(body["language"].s), left)
    ELSE <<>>

\* the answer the handler gives without a call of the LLM
LocalAnswer(body, left) ==
  IF DecidedEarly(body) THEN EarlyAnswer(body)
  ELSE FallbackAnswer(body, DetectedAfter(body, left))

\* a variant in which the validation stands before the try block
TryCovers_AnalysisOnly(place) == place = "analysis"

\* try { ... } catch of the route: the block holds the validation and the
\* awaited analysis
TryCovers(place) == place \in {"validation", "analysis"}

\* getFallbackAnalysis throws for this body
FallbackThrows(body) ==
  getFallbackAnalysis(normalizeLanguage(body["language"].s), body["level"].s,
                      HintOrOne(Get(body, "hintLevel")), <<>>,
                      Get(body, "userQuestion"), LearningStateOf(body)).threw

\* where an exception leaves the code of a request answered without the LLM
RaisedLocally(body) ==
  IF validateAnalyzeRequest(body).threw THEN "validation"
  ELSE IF DecidedEarly(body) THEN "none"
  ELSE IF FallbackThrows(body) THEN "analysis"
  ELSE "none"

\* an exception leaves the async handler: the request stays without an
\* answer, and the rejection of the handler's promise is handled by nobody,
\* which ends the process or not, depending on the runtime
Unanswered(i) ==
  /\ conn' = [conn EXCEPT ![i].phase = "unanswered"]
  /\ serverUp' \in BOOLEAN

MInit ==
  /\ apiKey \in BOOLEAN
  /\ typoLastIndex = UnusedPatterns
  /\ conn = [i \in 1..MaxRequests |-> NoRequest]
  /\ serverUp = TRUE
  /\ OnlyM

\* a request arrives
Receive(i) ==
  \E body \in ServedBodies :
    /\ serverUp
    /\ conn[i].phase = "idle"
    /\ conn' = [conn EXCEPT
                  ![i].phase = "received", ![i].body = body,
                  ![i].after = Cardinality({j \in 1..MaxRequests :
                                             conn[j].phase = "done"})]
    /\ UNCHANGED <<apiKey, typoLastIndex, serverUp, notM>>

\* the handler up to its first wait: validation, then analyzeCode up to the
\* call of the LLM, or through the fallback to the response
Handle(i) ==
  /\ serverUp
  /\ conn[i].phase = "received"
  /\ LET body == conn[i].body
         place == RaisedLocally(body)
     IN  IF DecidedEarly(body)
           THEN /\ IF place # "none" /\ ~TryCovers(place)
                     THEN Unanswered(i)
                     ELSE /\ conn' = [conn EXCEPT ![i].phase = "done",
                                                  ![i].raised = place,
                                                  ![i].response = EarlyAnswer(body)]
                          /\ UNCHANGED serverUp
                /\ UNCHANGED typoLastIndex
           ELSE /\ typoLastIndex' =
                     IF HasCode(body)
                       THEN LeftByScan(trim(body["code"].s), typoLastIndex)
                       ELSE typoLastIndex
                /\ IF apiKey /\ ~buildAnalysisPromptThrows(Get(body, "userQuestion"))
                     THEN /\ conn' = [conn EXCEPT
                                       ![i].phase = "awaitingLLM",
                                       ![i].called = TRUE,
                                       ![i].errors = DetectedAfter(body, typoLastIndex)]
                          /\ UNCHANGED serverUp
                     ELSE IF place # "none" /\ ~TryCovers(place)
                       THEN Unanswered(i)
                       ELSE /\ conn' = [conn EXCEPT
                                         ![i].phase = "done",
                                         ![i].raised = place,
                                         ![i].errors = DetectedAfter(body, typoLastIndex),
                                         ![i].response = LocalAnswer(body, typoLastIndex)]
                            /\ UNCHANGED serverUp
  /\ UNCHANGED <<apiKey, notM>>

\* the call of the LLM ends with an answer that parses
LLMAnswers(i) ==
  /\ serverUp
  /\ conn[i].phase = "awaitingLLM"
  /\ conn' = [conn EXCEPT
                ![i].phase = "done",
                ![i].response =
                   Answer(200, WithHintLevel(sanitizeResponse(ServedLLMReply).value,
                                             HintOrOne(Get(conn[i].body, "hintLevel"))))]
  /\ UNCHANGED <<apiKey, typoLastIndex, serverUp, notM>>

\* the call of the LLM is rejected or the 5 second timeout wins the race: the
\* catch block of getAIAnalysis answers from the errors detected before
LLMFails(i) ==
  /\ serverUp
  /\ conn[i].phase = "awaitingLLM"
  /\ IF FallbackThrows(conn[i].body) /\ ~TryCovers("analysis")
       THEN Unanswered(i)
       ELSE /\ conn' = [conn EXCEPT
                         ![i].phase = "done",
                         ![i].failed = TRUE,
                         ![i].raised = IF FallbackThrows(conn[i].body)
                                         THEN "analysis" ELSE "none",
                         ![i].response = FallbackAnswer(conn[i].body, conn[i].errors)]
            /\ UNCHANGED serverUp
  /\ UNCHANGED <<apiKey, typoLastIndex, notM>>

MNext ==
  \E i \in 1..MaxRequests :
    Receive(i) \/ Handle(i) \/ LLMAnswers(i) \/ LLMFails(i)

SpecServer == MInit /\ [][MNext]_vars

\* C16: for a fixed configuration, every request that is answered without a
\* call of the LLM gets the answer that a server which has handled nothing
\* else gives to its body, whatever requests were handled before it or
\* between its steps
C16_AnswerFromBodyAlone ==
  \A i \in 1..MaxRequests :
    (conn[i].phase = "done" /\ ~conn[i].called) =>
      conn[i].response = LocalAnswer(conn[i].body, UnusedPatterns)

\* two requests with the same misspelt code were answered without the LLM,
\* one after the other, and both answers report the typo
C16_Witness ==
  /\ ~apiKey
  /\ \A i \in 1..2 :
       /\ conn[i].phase = "done"
       /\ conn[i].body["code"] = Str("pirnt(total)")
       /\ Get(conn[i].body, "userQuestion") = Undef
       /\ conn[i].body["level"] = Str("basic")
       /\ Len(conn[i].errors) = 1
       /\ conn[i].response.status = 200

-----------------------------------------------------------------------------
(* The shape of the success response of POST /analyze                      *)

\* the fields the README lists for the response
ReadmeResponseFields ==
  {"explanation", "analogy", "hint", "hintLevel", "complexity", "detectedErrors"}

\* C17: every HTTP 200 response of POST /analyze holds a complexity object
\* and a detectedErrors list next to explanation, analogy, hint and hintLevel
C17_SuccessHasComplexity ==
  Answered =>
    \A i \in DOMAIN responses :
      responses[i].status = 200 =>
        /\ ReadmeResponseFields \subseteq DOMAIN responses[i].body
        /\ responses[i].body["complexity"].t = "object"
        /\ responses[i].body["detectedErrors"].t = "array"

\* no response of the route holds either of the two fields
NoComplexityInAnyResponse ==
  \A i \in DOMAIN responses :
    /\ "complexity" \notin DOMAIN responses[i].body
    /\ "detectedErrors" \notin DOMAIN responses[i].body

-----------------------------------------------------------------------------
(* complexityAnalyzer.js: calculateComplexity                              *)

\* the superscript two (U+00B2) of the source text, written in ASCII here
SuperscriptTwo == "<sup>2</sup>"

Complexity(best, worst, average, explanation) ==
  [best |-> best, worst |-> worst, average |-> average, explanation |-> explanation]

\* all three of best, worst and average are the same
Uniform(complexityStr, explanation) ==
  Complexity(complexityStr, complexityStr, complexityStr, explanation)

\* a variant that writes every depth with a caret
NestedComplexity_Caret(depth) == "O(n^" \o NatToString(depth) \o ")"

\* depth === 2 ? 'O(n2)', the 2 a superscript : 'O(n^${depth})'
NestedComplexity(depth) ==
  IF depth = 2 THEN "O(n" \o SuperscriptTwo \o ")"
  ELSE "O(n^" \o NatToString(depth) \o ")"

\* calculateComplexity(patterns, hasRecursion), patterns holding the four counts
calculateComplexity(patterns, hasRecursion) ==
  IF /\ patterns.simpleLoops = 0 /\ patterns.nestedLoops = 0
     /\ patterns.halvingLoops = 0 /\ patterns.multiplyingLoops = 0
     /\ ~hasRecursion
    THEN Uniform("O(1)", "No loops or recursion detected - constant time operations")
  ELSE IF patterns.halvingLoops > 0 \/ patterns.multiplyingLoops > 0
    THEN IF patterns.nestedLoops > 0
           THEN Uniform("O(n log n)",
                        "Nested loop with logarithmic pattern (like merge sort)")
           ELSE Uniform("O(log n)",
                        "Loop divides/multiplies by 2 each iteration (logarithmic)")
  ELSE IF patterns.nestedLoops > 0
    THEN LET depth == patterns.nestedLoops + 1
         IN  Uniform(NestedComplexity(depth),
                     NatToString(depth) \o " levels of nested loops detected")
  ELSE IF patterns.simpleLoops > 0
    THEN Uniform("O(n)",
                 NatToString(patterns.simpleLoops) \o " linear loop(s) detected")
  ELSE IF hasRecursion
    THEN Complexity("O(n)", "O(2^n)", "O(n) to O(2^n)",
           "Recursion detected - complexity depends on the recursion pattern")
  ELSE Complexity("O(1)", "O(n)", "O(n)", "Unable to determine exact complexity")

\* matches of one pattern that detectLoopPatterns counts in a code
MaxMatches == 3

\* a variant without Math.max(0, ...): fewer loops than nested matches
LoopPatterns_Unclamped ==
  [simpleLoops : -1..MaxMatches, nestedLoops : 0..MaxMatches,
   halvingLoops : 0..MaxMatches, multiplyingLoops : 0..MaxMatches]

\* the counts detectLoopPatterns can return: lengths of match lists, and
\* simpleLoops = Math.max(0, totalLoops - nestedMatches.length)
LoopPatterns ==
  [simpleLoops : 0..MaxMatches, nestedLoops : 0..MaxMatches,
   halvingLoops : 0..MaxMatches, multiplyingLoops : 0..MaxMatches]

KInit ==
  /\ \E patterns \in LoopPatterns, hasRecursion \in BOOLEAN :
       pCall = [fn |-> "calculateComplexity", patterns |-> patterns,
                hasRecursion |-> hasRecursion]
  /\ pResult = NotRun
  /\ OnlyP

\* return calculateComplexity(loopPatterns, hasRecursion) of analyzeComplexity
CallCalculateComplexity ==
  /\ pCall.fn = "calculateComplexity"
  /\ pResult = NotRun
  /\ pResult' = calculateComplexity(pCall.patterns, pCall.hasRecursion)
  /\ UNCHANGED <<pCall, notP>>

KNext == CallCalculateComplexity

SpecComplexity == KInit /\ [][KNext]_vars

ComplexityReturned == pCall.fn = "calculateComplexity" /\ pResult # NotRun

\* the first row of the decision table that matches a call, by its worst case
C18_Row(call) ==
  LET p == call.patterns
  IN  IF p.simpleLoops + p.nestedLoops + p.halvingLoops + p.multiplyingLoops = 0
         /\ ~call.hasRecursion
        THEN "O(1)"
      ELSE IF p.halvingLoops + p.multiplyingLoops >= 1
        THEN IF p.nestedLoops >= 1 THEN "O(n log n)" ELSE "O(log n)"
      ELSE IF p.nestedLoops = 1 THEN "O(n" \o SuperscriptTwo \o ")"
      ELSE IF p.nestedLoops = 2 THEN "O(n^3)"
      ELSE IF p.nestedLoops = 3 THEN "O(n^4)"
      ELSE IF p.nestedLoops = 4 THEN "O(n^5)"
      ELSE IF p.simpleLoops >= 1 THEN "O(n)"
      ELSE "O(2^n)"

\* C18: calculateComplexity answers from the first matching row of: no count
\* and no recursion, O(1); a halving or doubling match, O(n log n) with a
\* nested match and O(log n) without; k >= 1 nested matches, O(n^(k+1)) with
\* the square written as a superscript; simple loops, O(n); recursion, best
\* O(n) and worst O(2^n). Best, worst and average are equal in every row but
\* the recursion row.
C18_DecisionTable ==
  ComplexityReturned =>
    /\ pResult.worst = C18_Row(pCall)
    /\ pResult.worst # "O(2^n)" =>
         pResult.best = pResult.worst /\ pResult.average = pResult.worst
    /\ pResult.worst = "O(2^n)" =>
         pResult.best = "O(n)" /\ pCall.hasRecursion

\* a call that matches the logarithmic row and every row below it got the
\* answer of the logarithmic row
C18_Witness ==
  /\ ComplexityReturned
  /\ pCall.patterns = [simpleLoops |-> 2, nestedLoops |-> 1, halvingLoops |-> 1,
                       multiplyingLoops |-> 0]
  /\ pCall.hasRecursion
  /\ pResult.average = "O(n log n)"

-----------------------------------------------------------------------------
(* errorDetector.js: the order of the list detectErrors returns            *)

\* lines of a code passed to detectErrors
MaxLines == 2

\* the lines the codes are made of: an unclosed parenthesis, two typos, an
\* endless loop, a Python header without colon, a statement without semicolon
CodeLines ==
  {"x = (1", "pirnt(x)", "retrun x", "while (true) {", "if x > 1", "int y = 5"}

\* the codes of 1..MaxLines of these lines
DetectCodes ==
  UNION {{Join(chosen, "\n") : chosen \in [1..n -> CodeLines]} : n \in 1..MaxLines}

DetectLanguages == {"python", "c", "cpp", "java", "ruby"}

DInit ==
  /\ \E code \in DetectCodes, language \in DetectLanguages :
       pCall = [fn |-> "detectErrors", code |-> code, language |-> language]
  /\ pResult = NotRun
  /\ OnlyP

\* const detectedErrors = detectErrors(codeText, normalizedLang)
CallDetectErrors ==
  /\ pCall.fn = "detectErrors"
  /\ pResult = NotRun
  /\ pResult' = [errors |-> detectErrors(pCall.code, pCall.language)]
  /\ UNCHANGED <<pCall, notP>>

DNext == CallDetectErrors

SpecDetect == DInit /\ [][DNext]_vars

ErrorsDetected == pCall.fn = "detectErrors" /\ pResult # NotRun

\* a text starts with a prefix
C19_StartsWith(str, prefix) ==
  Len(str) >= Len(prefix) /\ SubSeq(str, 1, Len(prefix)) = prefix

\* the check an entry of the list comes from: 1 the bracket balance, 2 the
\* typo table, 3 the infinite-loop warning, 4 a check of the language
C19_Check(entry) ==
  IF C19_StartsWith(entry.description, "Unbalanced ") THEN 1
  ELSE IF entry.type = "typo" THEN 2
  ELSE IF C19_StartsWith(entry.description, "Potential infinite loop") THEN 3
  ELSE 4

\* C19: in the list detectErrors returns every error of the common checks
\* comes before every error of the language, the common ones in the order
\* bracket balance, typos, infinite-loop warnings, whatever their severity;
\* the list holds at most one bracket-balance error
C19_CommonChecksFirst ==
  ErrorsDetected =>
    /\ \A i, j \in DOMAIN pResult.errors :
         i < j => C19_Check(pResult.errors[i]) <= C19_Check(pResult.errors[j])
    /\ Cardinality({i \in DOMAIN pResult.errors : C19_Check(pResult.errors[i]) = 1}) <= 1

\* a list with an entry of each of the four kinds, in which the warnings of
\* the common checks stand before an error of the language
C19_Witness ==
  /\ ErrorsDetected
  /\ pCall.language = "python"
  /\ {C19_Check(pResult.errors[i]) : i \in DOMAIN pResult.errors} = {1, 2, 3, 4}
  /\ \E i, j \in DOMAIN pResult.errors :
       i < j /\ pResult.errors[i].severity = "warning" /\ pResult.errors[j].severity = "error"

-----------------------------------------------------------------------------
(* services/aiService.js: the three cases of getFallbackAnalysis           *)

\* the lists of detected errors passed to getFallbackAnalysis
FallbackErrorLists ==
  LET syntax == DetectedError("syntax",
                  "Python requires a colon (:) at the end of this statement", 1, "error")
      typo == DetectedError("typo", "Possible typo: Did you mean 'print'?", 0, "warning")
      logic == DetectedError("logic",
                 "Are you assigning (=) when you meant to compare (==)?", 2, "warning")
  IN  {<<>>, <<syntax>>, <<typo>>, <<syntax, typo>>, <<typo, syntax>>,
       <<logic, syntax, typo>>}

\* the userQuestion of a request body that passed the validation, which does
\* not look at it
FallbackQuestions ==
  {Undef, Str(""), Str("give me a hint"), Str("why does my loop not stop?"),
   Num(50), Arr(<<"help">>)}

FInit ==
  /\ \E language \in {"python", "java"}, level \in {"basic", "complex"},
        hintLevel \in {Num(10), Num(30), Num(50)},
        detectedErrors \in FallbackErrorLists,
        userQuestion \in FallbackQuestions,
        learningState \in {EmptyObject, SampleLearningState} :
       pCall = [fn |-> "getFallbackAnalysis", language |-> language, level |-> level,
                hintLevel |-> hintLevel, detectedErrors |-> detectedErrors,
                userQuestion |-> userQuestion, learningState |-> learningState]
  /\ pResult = NotRun
  /\ OnlyP

\* aiResponse = getFallbackAnalysis({...}) of analyzeCode, and the call in the
\* catch block of getAIAnalysis
CallGetFallbackAnalysis ==
  /\ pCall.fn = "getFallbackAnalysis"
  /\ pResult = NotRun
  /\ pResult' = getFallbackAnalysis(pCall.language, pCall.level, pCall.hintLevel,
                                    pCall.detectedErrors, pCall.userQuestion,
                                    pCall.learningState)
  /\ UNCHANGED <<pCall, notP>>

FNext == CallGetFallbackAnalysis

SpecFallback == FInit /\ [][FNext]_vars

FallbackReturned == pCall.fn = "getFallbackAnalysis" /\ pResult # NotRun

\* what the same call returns when only the first detected error is passed
C20_FromFirstErrorOnly ==
  getFallbackAnalysis(pCall.language, pCall.level, pCall.hintLevel,
                      <<pCall.detectedErrors[1]>>, pCall.userQuestion,
                      pCall.learningState).value

\* the three cases, for a call whose result is in pResult
C20_Routed ==
  /\ ~pResult.threw
  /\ IF pCall.userQuestion \notin {Undef, Str("")}
       THEN /\ pResult.value["conceptsTaught"] = Arr(<<"general-guidance">>)
            /\ pResult.value["suggestedNextConcept"] = Str("problem-decomposition")
     ELSE IF pCall.detectedErrors = <<>>
       THEN /\ pResult.value["conceptsTaught"] = Arr(<<"code-review", "logic-analysis">>)
            /\ pResult.value["analogy"] =
                 Str("Like proofreading a letter - the spelling might be correct, but does the message make sense?")
     ELSE /\ pResult.value["conceptsTaught"] = Arr(<<pCall.detectedErrors[1].type>>)
          /\ \A field \in {"explanation", "analogy", "hint", "conceptsTaught"} :
               pResult.value[field] = C20_FromFirstErrorOnly[field]

\* C20: getFallbackAnalysis returns the canned question response whenever
\* userQuestion is non-empty, whatever errors were detected; otherwise the
\* generic encouraging message when the error list is empty; otherwise an
\* explanation, analogy, hint and conceptsTaught that depend on the first
\* detected error only
C20_ThreeCases == FallbackReturned => C20_Routed

\* the three cases hold whenever userQuestion is absent or a string
ThreeCasesForTextQuestions ==
  (FallbackReturned /\ pCall.userQuestion.t \in {"undefined", "string"}) => C20_Routed

\* the call throws exactly for a userQuestion that is truthy and no string
FallbackThrowsOnOtherQuestions ==
  FallbackReturned =>
    (pResult.threw <=> pCall.userQuestion \in {Num(50), Arr(<<"help">>)})

-----------------------------------------------------------------------------
(* Exceptions while a request is processed                                 *)

\* the request was answered with HTTP 500 and the fixed texts of the route's
\* catch block, which hold neither the message nor the stack of the exception
GenericFailure(answer) ==
  /\ answer.status = 500
  /\ DOMAIN answer.body = {"error", "explanation", "analogy", "hint"}
  /\ answer.body["error"] = Str("Analysis failed - trying fallback")
  /\ answer.body["hint"] = Str("Try asking a simpler question or analyzing shorter code.")

\* C21: every exception raised while a request is processed, one raised by
\* the validation included, is answered with HTTP 500 and a generic message
\* without a stack trace; no request stays unanswered and the server goes on
\* answering later requests. (A failure of the call of the LLM is no exception
\* of the request: getAIAnalysis recovers it with the fallback.)
C21_ExceptionGets500 ==
  /\ serverUp
  /\ \A i \in 1..MaxRequests :
       /\ conn[i].phase # "unanswered"
       /\ (conn[i].phase = "done" /\ conn[i].raised # "none") =>
            GenericFailure(conn[i].response)

\* a request on which the validation threw was answered, and a request that
\* arrived after that answer got its analysis
C21_Witness ==
  \E i, j \in 1..MaxRequests :
    /\ conn[i].phase = "done" /\ conn[i].raised = "validation"
    /\ conn[i].response.status = 500
    /\ conn[j].phase = "done" /\ conn[j].after >= 1
    /\ conn[j].response.status = 200

-----------------------------------------------------------------------------
(* One response per request                                                *)

\* C22: a request whose handler has run is answered, exactly once, or waits
\* for the LLM with both timeouts armed; once the response is sent no later
\* step (the result of the LLM that arrives after a timeout has fired among
\* them) causes a second response or changes the one already sent
C22_ExactlyOneResponse ==
  /\ [](/\ phase = "done" => Len(responses) = 1
        /\ phase = "awaitingLLM" => (responses = <<>> /\ timer5 /\ timer10)
        /\ phase \in {"received", "awaitingLLM", "done"})
  /\ [][phase = "done" => (phase' = "done" /\ responses' = responses)]_vars

\* the LLM's call settled after the 5 second timeout had answered the request
\* with the fallback
C22_Witness ==
  /\ phase = "done"
  /\ llmTimedOut
  /\ llmCall = "resolved"
  /\ Len(responses) = 1
  /\ responses[1].status = 200

-----------------------------------------------------------------------------
(* Texts of the fallback for a detected error                              *)

NonEmptyText(v) == v.t = "string" /\ Len(v.s) > 0

\* a valid request without a question that was answered by the fallback from
\* at least one detected error
FallbackFromError ==
  /\ phase = "done"
  /\ ~ValidationFailed
  /\ ~Truthy(Get(req, "userQuestion"))
  /\ nFallback = 1
  /\ Len(detected) >= 1
  /\ Len(responses) = 1

\* C23: for every valid request without userQuestion that runs on the fallback
\* path with at least one detected error, the explanation and the hint of the
\* response are defined, non-empty texts, for every spelling of level that the
\* validator accepts
C23_ExplanationAndHintDefined ==
  FallbackFromError =>
    /\ responses[1].status = 200
    /\ NonEmptyText(responses[1].body["explanation"])
    /\ NonEmptyText(responses[1].body["hint"])

\* what the code keeps: with the level spelled in lower case the explanation
\* is a non-empty text, and with a whole hint level the hint is one
DefinedForLowerCaseLevel ==
  FallbackFromError =>
    /\ responses[1].status = 200
    /\ req["level"].s = toLowerCase(req["level"].s) =>
         NonEmptyText(responses[1].body["explanation"])
    /\ Get(req, "hintLevel") \in {Undef, Num(10), Num(20), Str("3")} =>
         NonEmptyText(responses[1].body["hint"])

\* the request with level "BASIC" was answered without an explanation
UpperCaseLevelUnexplained ==
  /\ FallbackFromError
  /\ req["level"] = Str("BASIC")
  /\ Get(req, "hintLevel") = Num(10)
  /\ responses[1].body["explanation"] = Undef
  /\ NonEmptyText(responses[1].body["hint"])

-----------------------------------------------------------------------------
(* Repeated errors                                                         *)

\* a call of updateLearningState with an error type has set the two fields
\* from the error type and the lastErrorType before the call
RepeatTracked ==
  (lsCall'.fn = "updateLearningState" /\ lsCall'.errorType # NoType) =>
    /\ LearningState'.sameErrorRepeated =
         (LearningState.lastErrorType = lsCall'.errorType)
    /\ LearningState'.lastErrorType = lsCall'.errorType

\* after such a call a repeated error type is one of the strugglingConcepts
RepeatedIsStruggling ==
  (lsCall'.fn = "updateLearningState" /\ lsCall'.errorType # NoType
     /\ LearningState'.sameErrorRepeated) =>
    SeqIncludes(LearningState'.strugglingConcepts, lsCall'.errorType)

\* a call without an error type leaves the three fields as they are
NullErrorTypeKeeps ==
  (lsCall'.fn = "updateLearningState" /\ lsCall'.errorType = NoType) =>
    /\ LearningState'.errorHistory = LearningState.errorHistory
    /\ LearningState'.lastErrorType = LearningState.lastErrorType
    /\ LearningState'.sameErrorRepeated = LearningState.sameErrorRepeated

\* C24: after updateLearningState is called with a non-null errorType e,
\* sameErrorRepeated is true exactly when the lastErrorType before the call
\* was e, lastErrorType equals e, and if sameErrorRepeated is true then e is
\* in strugglingConcepts; a call with a null errorType leaves errorHistory,
\* lastErrorType and sameErrorRepeated unchanged
C24_RepeatedErrorTracked ==
  [][RepeatTracked /\ RepeatedIsStruggling /\ NullErrorTypeKeeps]_vars

\* the part of C24 that the code keeps
C24_FlagsTracked == [][RepeatTracked /\ NullErrorTypeKeeps]_vars

\* the call that repeated the error type "syntax" also moved "syntax" from
\* strugglingConcepts to masteredConcepts
RepeatedButMastered ==
  /\ lsCall.fn = "updateLearningState"
  /\ lsCall.errorType = "syntax"
  /\ LearningState.sameErrorRepeated
  /\ LearningState.lastErrorType = "syntax"
  /\ ~SeqIncludes(LearningState.strugglingConcepts, "syntax")
  /\ SeqIncludes(LearningState.masteredConcepts, "syntax")

-----------------------------------------------------------------------------
(* currentUnderstanding                                                    *)

UnderstandingLevels == {"struggling", "learning", "confident"}

\* 'struggling' is backed by the hint count or the repeated error of the state
StrugglingBacked(state) ==
  state.currentUnderstanding = "struggling" =>
    (state.hintsGivenThisSession > HintsBeforeStruggling \/ state.sameErrorRepeated)

\* C25: after any sequence of updateLearningState, resetSessionState and
\* markConceptMastered calls from the default state, currentUnderstanding is
\* one of struggling, learning, confident, and it is 'struggling' only if
\* hintsGivenThisSession > 5 or sameErrorRepeated is true in that same state
C25_StrugglingOnlyWithCause ==
  /\ LearningState.currentUnderstanding \in UnderstandingLevels
  /\ StrugglingBacked(LearningState)

\* what the code keeps: the value is one of the three, and it is backed in
\* the state that a call of updateLearningState leaves
C25_BackedAfterUpdate ==
  /\ [](LearningState.currentUnderstanding \in UnderstandingLevels)
  /\ [][lsCall'.fn = "updateLearningState" => StrugglingBacked(LearningState')]_vars

\* resetSessionState has cleared the session fields of a struggling student
\* and left currentUnderstanding as it was
StrugglingAfterReset ==
  /\ lsCall.fn = "resetSessionState"
  /\ LearningState.currentUnderstanding = "struggling"
  /\ LearningState.hintsGivenThisSession = 0
  /\ ~LearningState.sameErrorRepeated

-----------------------------------------------------------------------------
(* strugglingConcepts and masteredConcepts                                 *)

\* the concepts that are in both lists of the state
InBothLists(state) ==
  {state.strugglingConcepts[i] : i \in DOMAIN state.strugglingConcepts}
    \cap {state.masteredConcepts[i] : i \in DOMAIN state.masteredConcepts}

\* C26: after any sequence of updateLearningState, resetSessionState and
\* markConceptMastered calls from the default state, no concept is in
\* strugglingConcepts and masteredConcepts at the same time
C26_ListsDisjoint == InBothLists(LearningState) = {}

\* what the code keeps: markConceptMastered leaves its concept out of
\* strugglingConcepts, and a concept that updateLearningState moves to
\* masteredConcepts leaves strugglingConcepts
C26_MovesAreClean ==
  [][/\ lsCall'.fn = "markConceptMastered" =>
          InBothLists(LearningState') \subseteq InBothLists(LearningState)
     /\ lsCall'.fn = "resetSessionState" =>
          InBothLists(LearningState') = InBothLists(LearningState)]_vars

\* the error type "logic" was repeated after the student had marked "logic"
\* as mastered: it is in both lists
MasteredAndStruggling ==
  /\ lsCall.fn = "updateLearningState"
  /\ lsCall.errorType = "logic"
  /\ "logic" \in InBothLists(LearningState)

-----------------------------------------------------------------------------
(* Promotion to masteredConcepts                                           *)

Elements(array) == {array[i] : i \in DOMAIN array}

\* the strugglingConcepts when the call reaches response.conceptsTaught: those
\* of the stored state and the error type that the call has just seen repeated
StrugglingWhenTaught ==
  Elements(LearningState.strugglingConcepts)
    \cup ( IF lsCall'.errorType # NoType
              /\ LearningState.lastErrorType = lsCall'.errorType
             THEN {lsCall'.errorType} ELSE {} )

\* the concepts that the call took out of strugglingConcepts or added to
\* masteredConcepts
MovedByCall ==
  (StrugglingWhenTaught \ Elements(LearningState'.strugglingConcepts))
    \cup (Elements(LearningState'.masteredConcepts)
            \ Elements(LearningState.masteredConcepts))

\* the concept is listed in the conceptsTaught of the response of the call
TaughtByCall(concept) ==
  \E response \in LearningResponses :
    /\ ~response.isNull
    /\ response.reply = lsCall'.reply
    /\ SeqIncludes(response.conceptsTaught, concept)

\* the stored explanations, as they are before the call, that hold the concept
ExplanationsWith(concept) ==
  {i \in DOMAIN LearningState.previousExplanations :
     Contains(toLowerCase(LearningState.previousExplanations[i]),
              toLowerCase(concept))}

PromotionJustified ==
  lsCall'.fn = "updateLearningState" =>
    \A concept \in MovedByCall :
      /\ TaughtByCall(concept)
      /\ concept \in StrugglingWhenTaught
      /\ Cardinality(ExplanationsWith(concept)) >= 3
      /\ concept \in Elements(LearningState'.masteredConcepts)
      /\ concept \notin Elements(LearningState'.strugglingConcepts)

\* C27: updateLearningState moves a concept from strugglingConcepts to
\* masteredConcepts only if the concept is listed in the response's
\* conceptsTaught, is in strugglingConcepts at that moment, and occurs
\* (case-insensitively) in at least 3 of the stored previousExplanations as
\* they are before the current reply is appended; in every other case
\* updateLearningState adds nothing to masteredConcepts
C27_PromotionOnlyAfterThree == [][PromotionJustified]_vars

\* the call that brought the fourth reply found "syntax" among the
\* strugglingConcepts and in three stored explanations, and promoted it
C27_Witness ==
  /\ lsCall.fn = "updateLearningState"
  /\ lsCall.reply = ReplyText(4)
  /\ nReplies = 4
  /\ LearningState.masteredConcepts = <<"syntax">>
  /\ LearningState.strugglingConcepts = <<>>
  /\ Len(LearningState.previousExplanations) = 4

-----------------------------------------------------------------------------
(* The last row of the decision table                                      *)

\* the result of the last return statement of calculateComplexity
UndeterminedComplexity ==
  Complexity("O(1)", "O(n)", "O(n)", "Unable to determine exact complexity")

\* one of the five rows before the last return statement matches the call
EarlierRowMatches(call) ==
  LET p == call.patterns
  IN  \/ /\ p.simpleLoops = 0 /\ p.nestedLoops = 0 /\ p.halvingLoops = 0
         /\ p.multiplyingLoops = 0 /\ ~call.hasRecursion
      \/ p.halvingLoops > 0 \/ p.multiplyingLoops > 0
      \/ p.nestedLoops > 0
      \/ p.simpleLoops > 0
      \/ call.hasRecursion

-----------------------------------------------------------------------------
(* The fields sanitizeResponse leaves alone                                *)

\* the object the call returned holds the fields of its argument, each but
\* reply with the value received
OtherFieldsKept ==
  /\ DOMAIN sOnce.value = DOMAIN sArg.fields
  /\ \A k \in DOMAIN sOnce.value \ {"reply"} : sOnce.value[k] = sArg.fields[k]

-----------------------------------------------------------------------------
(* errorDetector.js: the array-out-of-bounds check for C and C++           *)

\* the lines of the C programs: declarations of arrays of 5 and 10 elements,
\* accesses below and at these sizes, and a line without an array
ArrayLines ==
  {"int arr[5];", "int big[10];", "arr[4] = 1;", "arr[5] = 1;", "arr[ 5 ] = 2;",
   "x = big[9];", "int i = 0;"}

ArrayCodes ==
  UNION {{Join(chosen, "\n") : chosen \in [1..n -> ArrayLines]} : n \in 1..MaxLines}

AInit ==
  /\ \E code \in ArrayCodes, language \in {"c", "cpp"} :
       pCall = [fn |-> "detectErrors", code |-> code, language |-> language]
  /\ pResult = NotRun
  /\ OnlyP

SpecArrays == AInit /\ [][DNext]_vars

\* the line declares an array: a type, a name and a size in brackets
DeclaresArray(line) ==
  C19_StartsWith(line, "int ") /\ \E b \in 1..Len(line) : ArrayDeclAt(line, b)

\* the declarations of a program, by line number
Declarations(lines) == {k \in DOMAIN lines : DeclaresArray(lines[k])}

\* the size a declaration line declares
DeclaredSize(line) == ArrayDecl(line).size

\* the entries of the list that report an index out of bounds
OutOfBoundsEntries ==
  {i \in DOMAIN pResult.errors :
     C19_StartsWith(pResult.errors[i].description, "Array index ")}

\* C30: for C and C++ code, the array-out-of-bounds logic error is reported
\* for a line only when that line accesses an array at an index equal to the
\* declared size; a program that declares a fixed-size array and only uses
\* indices below the size gets no such error, also not on the declaration line
C30_OnlyAccessAtSize ==
  ErrorsDetected =>
    LET lines == Split(pCall.code, "\n")
    IN  \A i \in OutOfBoundsEntries :
          LET k == pResult.errors[i].line
          IN  /\ ~DeclaresArray(lines[k])
              /\ \E d \in Declarations(lines) :
                   AccessAtSize(lines[k], DeclaredSize(lines[d]))

\* what the code keeps: the error is reported for exactly the lines that hold,
\* in brackets, the first bracketed number of the program
C30_FirstBracketedNumber ==
  ErrorsDetected =>
    LET lines == Split(pCall.code, "\n")
    IN  {pResult.errors[i].line : i \in OutOfBoundsEntries} =
          {k \in DOMAIN lines :
             ArrayDecl(pCall.code).matched
               /\ AccessAtSize(lines[k], ArrayDecl(pCall.code).size)}

\* the program that declares arr[5] and writes arr[4] got the error on its
\* declaration line
DeclarationLineReported ==
  /\ ErrorsDetected
  /\ pCall.code = "int arr[5];\narr[4] = 1;"
  /\ \E i \in OutOfBoundsEntries : pResult.errors[i].line = 1
  /\ \A i \in OutOfBoundsEntries : pResult.errors[i].line # 2

====
